---- MODULE Spec2Model ----
(***************************************************************************)
(* A model of odincare/odicom: the byte-stream Decoder and Encoder         *)
(* (package dicomio), the element codec (ReadElement / WriteElement) and   *)
(* the dataset drivers (ReadDataSet / WriteDataSet).                       *)
(*                                                                         *)
(* Conventions.                                                            *)
(*  - A Go string or []byte is a sequence of byte values 0..255; string    *)
(*    literals of the source are spelled out as their ASCII codes.         *)
(*  - A Go function that mutates its receiver is an operator that takes    *)
(*    the receiver record and returns the new one, beside its result.      *)
(*  - TLC integers have 32 bits.  A uint32 v >= 2^31 is carried as         *)
(*    v - 2^32 (its two's complement image), so 0xffffffff is -1.  The    *)
(*    int64 of the source has the width of these integers: MaxInt64 is     *)
(*    2^31 - 1, and the sums and differences of positions and limits wrap  *)
(*    around at that width (Add64, Sub64) as they do at 64 bits.           *)
(*  - A Go panic sets the field "panic" of the record it happens on; the   *)
(*    callers stop as soon as they see it.                                 *)
(***************************************************************************)
EXTENDS Integers, Sequences, FiniteSets, TLC

\* ------------------------------------------------------------------------
\* Small helpers

Min(a, b) ==
    IF a < b THEN a ELSE b

Last(s) ==
    s[Len(s)]

Front(s) ==
    SubSeq(s, 1, Len(s) - 1)

\* the element of a singleton set.  Only({F(r) : r \in {E}}) is F of the
\* value of E, with E evaluated once however often F mentions r.
Only(S) ==
    CHOOSE x \in S : TRUE

\* make([]byte, n)
Zeros(n) ==
    [i \in 1..n |-> 0]

\* ------------------------------------------------------------------------
\* dicomio: types, constants

\* binary.LittleEndian / binary.BigEndian / a nil binary.ByteOrder
LittleEndian == "LittleEndian"
BigEndian == "BigEndian"
NilByteOrder == "nil"

\* NativeByteOrder is the byte order of this machine
NativeByteOrder == LittleEndian

\* IsImplicitVR
ImplicitVR == "ImplicitVR"
ExplicitVR == "ExplicitVR"
UnknownVR == "UnknownVR"

\* math.MaxInt64, the limit of a decoder with no window, at the width of the
\* integers of the model
MaxInt64 == 2147483647

\* const UndefinedLength uint32 = 0xffffffff
UndefinedLength == -1

\* const ItemSeqGroup = 0xFFFE
ItemSeqGroup == 65534

\* a nil error
Nil == [msg |-> "", off |-> 0]

\* the error value a SetError(err) stores at position pos: io.EOF is kept as
\* it is, any other error gets the file offset appended
MkError(msg, pos) ==
    IF msg = "EOF" THEN [msg |-> "EOF", off |-> -1] ELSE [msg |-> msg, off |-> pos]

\* the CodingSystem with three nil decoders
NilCodingSystem == [Alphabetic |-> "", Ideographic |-> "", Phonetic |-> ""]

\* ------------------------------------------------------------------------
\* dicomio.Decoder

NewBytesDecoder(data, byteorder, implicit) ==
    [in |-> data, err |-> Nil, byteorder |-> byteorder, implicit |-> implicit,
     limit |-> MaxInt64, pos |-> 0, codingSystem |-> NilCodingSystem,
     oldTransferSyntaxes |-> <<>>, stateStack |-> <<>>, panic |-> FALSE]

\* a SetError that keeps the last error and not the first
SetErrorLast(d, msg) ==
    [d EXCEPT !.err = MkError(msg, d.pos)]

SetError(d, msg) ==
    IF d.err = Nil THEN [d EXCEPT !.err = MkError(msg, d.pos)] ELSE d

Error(d) ==
    d.err

TransferSyntax(d) ==
    [byteorder |-> d.byteorder, implicit |-> d.implicit]

PushTransferSyntax(d, byteorder, implicit) ==
    [d EXCEPT !.oldTransferSyntaxes = Append(@, [byteorder |-> d.byteorder, implicit |-> d.implicit]),
              !.byteorder = byteorder,
              !.implicit = implicit]

\* a PopTransferSyntax that restores the transfer syntax and leaves the entry
\* on the stack
PopTransferSyntaxKept(d) ==
    IF d.oldTransferSyntaxes = <<>>
    THEN [d EXCEPT !.panic = TRUE]
    ELSE [d EXCEPT !.byteorder = Last(d.oldTransferSyntaxes).byteorder,
                   !.implicit = Last(d.oldTransferSyntaxes).implicit]

PopTransferSyntax(d) ==
    IF d.oldTransferSyntaxes = <<>>
    THEN [d EXCEPT !.panic = TRUE]
    ELSE [d EXCEPT !.byteorder = Last(d.oldTransferSyntaxes).byteorder,
                   !.implicit = Last(d.oldTransferSyntaxes).implicit,
                   !.oldTransferSyntaxes = Front(@)]

SetCodingSystem(d, cs) ==
    [d EXCEPT !.codingSystem = cs]

\* math.MinInt64
MinInt64 ==
    -MaxInt64 - 1

\* a + b of two int64: the sum wraps around
Add64(a, b) ==
    IF a >= 0 /\ b >= 0 /\ b > MaxInt64 - a
    THEN (a - MaxInt64 - 1) + (b - MaxInt64 - 1)
    ELSE IF a < 0 /\ b < 0 /\ b < MinInt64 - a
    THEN (a + MaxInt64 + 1) + (b + MaxInt64 + 1)
    ELSE a + b

\* a - b of two int64: the difference wraps around
Sub64(a, b) ==
    IF b = MinInt64
    THEN (IF a >= 0 THEN a + MinInt64 ELSE (a + MaxInt64) + 1)
    ELSE Add64(a, -b)

\* d.len(): limit - pos
DLen(d) ==
    Sub64(d.limit, d.pos)

\* the bytes the underlying reader still holds
Avail(d) ==
    Len(d.in) - d.pos

\* an io.ReadFull that takes nothing when it cannot take all
ReadFullOrNothing(d, n) ==
    IF n > 0 /\ DLen(d) < 0
    THEN [d |-> [d EXCEPT !.panic = TRUE], data |-> <<>>, err |-> ""]
    ELSE IF n <= Min(DLen(d), Avail(d))
    THEN [d |-> [d EXCEPT !.pos = @ + n],
          data |-> SubSeq(d.in, d.pos + 1, d.pos + n), err |-> ""]
    ELSE [d |-> d, data |-> <<>>, err |-> "EOF"]

\* io.ReadFull(d, buf) with len(buf) = n, through Decoder.Read: each Read is
\* cut to the window (limit - pos) and to what the stream holds, and advances
\* pos by what it got; a Read at the window end or at the stream end is EOF.
\* With the position beyond the limit, Read slices p[:desired] with a negative
\* desired and panics.
ReadFull(d, n) ==
    IF n > 0 /\ DLen(d) < 0
    THEN [d |-> [d EXCEPT !.panic = TRUE], data |-> <<>>, err |-> ""]
    ELSE Only({ [d |-> [d EXCEPT !.pos = @ + k],
                 data |-> SubSeq(d.in, d.pos + 1, d.pos + k),
                 err |-> IF k = n THEN "" ELSE IF k = 0 THEN "EOF" ELSE "unexpected EOF"]
                : k \in {Min(n, Min(DLen(d), Avail(d)))} })

\* binary.Read of an n-byte value: the bytes in value order (least
\* significant first), or <<>> with the error recorded
ReadFixed(d, n) ==
    Only({ IF r.d.panic THEN [d |-> r.d, ok |-> FALSE, b |-> <<>>]
           ELSE IF r.err = ""
           THEN [d |-> r.d, ok |-> TRUE,
                 b |-> IF d.byteorder = BigEndian
                       THEN [i \in 1..n |-> r.data[n + 1 - i]]
                       ELSE r.data]
           ELSE [d |-> SetError(r.d, r.err), ok |-> FALSE, b |-> <<>>]
           : r \in {ReadFull(d, n)} })

U16(b) ==
    b[1] + 256 * b[2]

\* a uint32 below 2^31 is itself, one above is carried as v - 2^32
U32(b) ==
    b[1] + 256 * b[2] + 65536 * b[3]
      + 16777216 * (IF b[4] >= 128 THEN b[4] - 256 ELSE b[4])

ReadByte(d) ==
    Only({ [d |-> r.d, v |-> IF r.ok THEN r.b[1] ELSE 0] : r \in {ReadFixed(d, 1)} })

ReadUInt16(d) ==
    Only({ [d |-> r.d, v |-> IF r.ok THEN U16(r.b) ELSE 0] : r \in {ReadFixed(d, 2)} })

ReadUInt32(d) ==
    Only({ [d |-> r.d, v |-> IF r.ok THEN U32(r.b) ELSE 0] : r \in {ReadFixed(d, 4)} })

ReadInt16(d) ==
    Only({ [d |-> r.d,
            v |-> IF ~r.ok THEN 0
                  ELSE IF r.b[2] >= 128 THEN U16(r.b) - 65536
                  ELSE U16(r.b)]
           : r \in {ReadFixed(d, 2)} })

ReadInt32(d) ==
    Only({ [d |-> r.d, v |-> IF r.ok THEN U32(r.b) ELSE 0] : r \in {ReadFixed(d, 4)} })

\* a float32 is carried as its IEEE bit pattern
ReadFloat32(d) ==
    Only({ [d |-> r.d, v |-> IF r.ok THEN U32(r.b) ELSE 0] : r \in {ReadFixed(d, 4)} })

\* a float64 is carried as its IEEE bit pattern, <<high word, low word>>
ReadFloat64(d) ==
    Only({ [d |-> r.d,
            v |-> IF r.ok
                  THEN <<U32(SubSeq(r.b, 5, 8)), U32(SubSeq(r.b, 1, 4))>>
                  ELSE <<0, 0>>]
           : r \in {ReadFixed(d, 8)} })

ReadBytes(d, length) ==
    IF DLen(d) < length
    THEN [d |-> SetError(d, "ReadBytes: requested more than available"), v |-> <<>>]
    ELSE Only({ [d |-> IF k < length
                       THEN SetError([d EXCEPT !.pos = @ + k], "EOF")
                       ELSE [d EXCEPT !.pos = @ + k],
                 v |-> SubSeq(d.in, d.pos + 1, d.pos + k) \o Zeros(length - k)]
                : k \in {Min(length, Avail(d))} })

Skip(d, length) ==
    IF DLen(d) < length
    THEN SetError(d, "Skip: requested more than available")
    ELSE Only({ IF k < length
                THEN SetError([d EXCEPT !.pos = @ + k], "EOF")
                ELSE [d EXCEPT !.pos = @ + k]
                : k \in {Min(length, Avail(d))} })

EOF(d) ==
    \/ d.err # Nil
    \/ Sub64(d.limit, d.pos) <= 0
    \/ Avail(d) <= 0

BytesRead(d) ==
    d.pos

PushLimit(d, bytes) ==
    IF Add64(d.pos, bytes) > d.limit
    THEN [d EXCEPT !.stateStack =
                       Append(@, [limit |-> d.limit,
                                  err |-> SetError(d, "trying to read bytes beyond buffer end").err]),
                   !.limit = d.pos,
                   !.err = Nil]
    ELSE [d EXCEPT !.stateStack = Append(@, [limit |-> d.limit, err |-> d.err]),
                   !.limit = Add64(d.pos, bytes),
                   !.err = Nil]

\* a PopLimit that restores the limit and leaves the error of the window
PopLimitOfLimit(d) ==
    IF d.stateStack = <<>>
    THEN [d EXCEPT !.panic = TRUE]
    ELSE Only({ [d1 EXCEPT !.limit = Last(d.stateStack).limit,
                           !.stateStack = Front(@)]
                : d1 \in {IF d.pos < d.limit THEN Skip(d, Sub64(d.limit, d.pos)) ELSE d} })

PopLimit(d) ==
    IF d.stateStack = <<>>
    THEN [d EXCEPT !.panic = TRUE]
    ELSE Only({ [d1 EXCEPT !.limit = Last(d.stateStack).limit,
                           !.err = IF Last(d.stateStack).err # Nil
                                   THEN Last(d.stateStack).err
                                   ELSE d1.err,
                           !.stateStack = Front(@)]
                : d1 \in {IF d.pos < d.limit THEN Skip(d, Sub64(d.limit, d.pos)) ELSE d} })

Finish(d) ==
    IF d.err # Nil THEN d.err
    ELSE IF ~EOF(d) THEN MkError("Decoder found junk", -1)
    ELSE Nil

\* ------------------------------------------------------------------------
\* Strings of the source, as their bytes

\* "AT"
vrAT == <<65, 84>>

\* "DA"
vrDA == <<68, 65>>

\* "FD"
vrFD == <<70, 68>>

\* "FL"
vrFL == <<70, 76>>

\* "LT"
vrLT == <<76, 84>>

\* "NA"
vrNA == <<78, 65>>

\* "OB"
vrOB == <<79, 66>>

\* "OD"
vrOD == <<79, 68>>

\* "OF"
vrOF == <<79, 70>>

\* "OL"
vrOL == <<79, 76>>

\* "OW"
vrOW == <<79, 87>>

\* "SQ"
vrSQ == <<83, 81>>

\* "SS"
vrSS == <<83, 83>>

\* "SL"
vrSL == <<83, 76>>

\* "UC"
vrUC == <<85, 67>>

\* "UI"
vrUI == <<85, 73>>

\* "UL"
vrUL == <<85, 76>>

\* "UN"
vrUN == <<85, 78>>

\* "UR"
vrUR == <<85, 82>>

\* "US"
vrUS == <<85, 83>>

\* "UT"
vrUT == <<85, 84>>

\* "VI"
vrVI == <<86, 73>>

\* "CS"
vrCS == <<67, 83>>

\* "PN"
vrPN == <<80, 78>>

\* "SH"
vrSH == <<83, 72>>

\* "LO"
vrLO == <<76, 79>>

\* the magic word "DICM"
DICM == <<68, 73, 67, 77>>

\* dicomuid: "1.2.840.10008.1.2"
ImplicitVRLittleEndian == <<49, 46, 50, 46, 56, 52, 48, 46, 49, 48, 48, 48, 56, 46, 49, 46, 50>>

\* dicomuid: "1.2.840.10008.1.2.1"
ExplicitVRLittleEndian == <<49, 46, 50, 46, 56, 52, 48, 46, 49, 48, 48, 48, 56, 46, 49, 46, 50, 46, 49>>

\* dicomuid: "1.2.840.10008.1.2.2"
ExplicitVRBigEndian == <<49, 46, 50, 46, 56, 52, 48, 46, 49, 48, 48, 48, 56, 46, 49, 46, 50, 46, 50>>

\* dicomuid: "1.2.840.10008.1.2.1.99"
DeflatedExplicitVRLittleEndian == <<49, 46, 50, 46, 56, 52, 48, 46, 49, 48, 48, 48, 56, 46, 49, 46, 50, 46, 49, 46, 57, 57>>

\* dicomuid: "1.2.840.10008.1.2.4.50"
JPEGBaseline == <<49, 46, 50, 46, 56, 52, 48, 46, 49, 48, 48, 48, 56, 46, 49, 46, 50, 46, 52, 46, 53, 48>>

\* dicomuid: "1.2.840.10008.1.1"
VerificationSOPClass == <<49, 46, 50, 46, 56, 52, 48, 46, 49, 48, 48, 48, 56, 46, 49, 46, 49>>

\* "1.2.826.0.1.3680043.9.7133.1.1"
GoDICOMImplementationClassUID == <<49, 46, 50, 46, 56, 50, 54, 46, 48, 46, 49, 46, 51, 54, 56, 48, 48, 52, 51, 46, 57, 46, 55, 49, 51, 51, 46, 49, 46, 49>>

\* "GODICOM_1_1"
GoDICOMImplementationVersionName == <<71, 79, 68, 73, 67, 79, 77, 95, 49, 95, 49>>

\* []byte("0 1")
DefaultFileMetaInformationVersion == <<48, 32, 49>>

\* Mapping DICOM charset name to golang encoding/htmlindex name
htmlEncodingNames ==
    (<<73, 83, 79, 32, 50, 48, 50, 50, 32, 73, 82, 32, 54>> :> "iso-8859-1")  \* "ISO 2022 IR 6"
    @@ (<<73, 83, 79, 95, 73, 82, 32, 49, 51>> :> "shift_jis")  \* "ISO_IR 13"
    @@ (<<73, 83, 79, 32, 50, 48, 50, 50, 32, 73, 82, 32, 49, 51>> :> "shift_jis")  \* "ISO 2022 IR 13"
    @@ (<<73, 83, 79, 95, 73, 82, 32, 49, 48, 48>> :> "iso-8859-1")  \* "ISO_IR 100"
    @@ (<<73, 83, 79, 32, 50, 48, 50, 50, 32, 73, 82, 32, 49, 48, 48>> :> "iso-8859-1")  \* "ISO 2022 IR 100"
    @@ (<<73, 83, 79, 95, 73, 82, 32, 49, 48, 49>> :> "iso-8859-2")  \* "ISO_IR 101"
    @@ (<<73, 83, 79, 32, 50, 48, 50, 50, 32, 73, 82, 32, 49, 48, 49>> :> "iso-8859-2")  \* "ISO 2022 IR 101"
    @@ (<<73, 83, 79, 95, 73, 82, 32, 49, 48, 57>> :> "iso-8859-3")  \* "ISO_IR 109"
    @@ (<<73, 83, 79, 32, 50, 48, 50, 50, 32, 73, 82, 32, 49, 48, 57>> :> "iso-8859-3")  \* "ISO 2022 IR 109"
    @@ (<<73, 83, 79, 95, 73, 82, 32, 49, 49, 48>> :> "iso-8859-4")  \* "ISO_IR 110"
    @@ (<<73, 83, 79, 32, 50, 48, 50, 50, 32, 73, 82, 32, 49, 49, 48>> :> "iso-8859-4")  \* "ISO 2022 IR 110"
    @@ (<<73, 83, 79, 95, 73, 82, 32, 49, 50, 54>> :> "iso-ir-126")  \* "ISO_IR 126"
    @@ (<<73, 83, 79, 32, 50, 48, 50, 50, 32, 73, 82, 32, 49, 50, 54>> :> "iso-ir-126")  \* "ISO 2022 IR 126"
    @@ (<<73, 83, 79, 95, 73, 82, 32, 49, 50, 55>> :> "iso-ir-127")  \* "ISO_IR 127"
    @@ (<<73, 83, 79, 32, 50, 48, 50, 50, 32, 73, 82, 32, 49, 50, 55>> :> "iso-ir-127")  \* "ISO 2022 IR 127"
    @@ (<<73, 83, 79, 95, 73, 82, 32, 49, 51, 56>> :> "iso-ir-138")  \* "ISO_IR 138"
    @@ (<<73, 83, 79, 32, 50, 48, 50, 50, 32, 73, 82, 32, 49, 51, 56>> :> "iso-ir-138")  \* "ISO 2022 IR 138"
    @@ (<<73, 83, 79, 95, 73, 82, 32, 49, 52, 52>> :> "iso-ir-144")  \* "ISO_IR 144"
    @@ (<<73, 83, 79, 32, 50, 48, 50, 50, 32, 73, 82, 32, 49, 52, 52>> :> "iso-ir-144")  \* "ISO 2022 IR 144"
    @@ (<<73, 83, 79, 95, 73, 82, 32, 49, 52, 56>> :> "iso-ir-148")  \* "ISO_IR 148"
    @@ (<<73, 83, 79, 32, 50, 48, 50, 50, 32, 73, 82, 32, 49, 52, 56>> :> "iso-ir-148")  \* "ISO 2022 IR 148"
    @@ (<<73, 83, 79, 32, 50, 48, 50, 50, 32, 73, 82, 32, 49, 52, 57>> :> "euc-kr")  \* "ISO 2022 IR 149"
    @@ (<<73, 83, 79, 32, 50, 48, 50, 50, 32, 73, 82, 32, 49, 53, 57>> :> "iso-2022-jp")  \* "ISO 2022 IR 159"
    @@ (<<73, 83, 79, 95, 73, 82, 32, 49, 54, 54>> :> "iso-ir-166")  \* "ISO_IR 166"
    @@ (<<73, 83, 79, 32, 50, 48, 50, 50, 32, 73, 82, 32, 49, 54, 54>> :> "iso-ir-166")  \* "ISO 2022 IR 166"
    @@ (<<73, 83, 79, 32, 50, 48, 50, 50, 32, 73, 82, 32, 56, 55>> :> "iso-2022-jp")  \* "ISO 2022 IR 87"
    @@ (<<73, 83, 79, 95, 73, 82, 32, 49, 57, 50>> :> "utf-8")  \* "ISO_IR 192"
    @@ (<<71, 66, 49, 56, 48, 51, 48>> :> "utf-8")  \* "GB18030"


\* ------------------------------------------------------------------------
\* dicomtag: tags and the data dictionary

\* Tag{Group, Element}
Tag(g, e) ==
    [Group |-> g, Element |-> e]

\* Compare returns -1/0/1: tags are ordered by group, then by element
Compare(t, other) ==
    IF t.Group < other.Group THEN -1
    ELSE IF t.Group > other.Group THEN 1
    ELSE IF t.Element < other.Element THEN -1
    ELSE IF t.Element > other.Element THEN 1
    ELSE 0

\* MetadataGroup is the Tag.Group of the metadata tags
MetadataGroup == 2

FileMetaInformationGroupLength == Tag(2, 0)
FileMetaInformationVersion == Tag(2, 1)
MediaStorageSOPClassUID == Tag(2, 2)
MediaStorageSOPInstanceUID == Tag(2, 3)
TransferSyntaxUID == Tag(2, 16)
ImplementationClassUID == Tag(2, 18)
ImplementationVersionName == Tag(2, 19)
SpecificCharacterSet == Tag(8, 5)
StudyDate == Tag(8, 32)
ReferencedStudySequence == Tag(8, 4368)
PatientName == Tag(16, 16)
PatientComments == Tag(16, 16384)
StudyInstanceUID == Tag(32, 13)
SeriesInstanceUID == Tag(32, 14)
SamplesPerPixel == Tag(40, 2)
FrameIncrementPointer == Tag(40, 9)
PixelData == Tag(32736, 16)
Item == Tag(65534, 57344)
ItemDelimitationItem == Tag(65534, 57357)
SequenceDelimitationItem == Tag(65534, 57565)

\* the entries of the data dictionary the model keeps: tag :> VR
tagDict ==
    (FileMetaInformationGroupLength :> vrUL)
    @@ (FileMetaInformationVersion :> vrOB)
    @@ (MediaStorageSOPClassUID :> vrUI)
    @@ (MediaStorageSOPInstanceUID :> vrUI)
    @@ (TransferSyntaxUID :> vrUI)
    @@ (ImplementationClassUID :> vrUI)
    @@ (ImplementationVersionName :> vrSH)
    @@ (SpecificCharacterSet :> vrCS)
    @@ (StudyDate :> vrDA)
    @@ (ReferencedStudySequence :> vrSQ)
    @@ (PatientName :> vrPN)
    @@ (PatientComments :> vrLT)
    @@ (StudyInstanceUID :> vrUI)
    @@ (SeriesInstanceUID :> vrUI)
    @@ (SamplesPerPixel :> vrUS)
    @@ (FrameIncrementPointer :> vrAT)
    @@ (PixelData :> vrOW)
    @@ (Item :> vrNA)
    @@ (ItemDelimitationItem :> vrNA)
    @@ (SequenceDelimitationItem :> vrNA)

\* Find: the dictionary entry of a tag, (gggg,0000) of an even group being
\* GenericGroupLength; ok = FALSE is the error
Find(tag) ==
    IF tag \in DOMAIN tagDict THEN [ok |-> TRUE, VR |-> tagDict[tag]]
    ELSE IF tag.Group % 2 = 0 /\ tag.Element = 0 THEN [ok |-> TRUE, VR |-> vrUL]
    ELSE [ok |-> FALSE, VR |-> <<>>]

\* GetVRKind
GetVRKind(tag, vr) ==
    IF tag = Item THEN "VRItem"
    ELSE IF tag = PixelData THEN "VRPixelData"
    ELSE IF vr = vrDA THEN "VRDate"
    ELSE IF vr = vrAT THEN "VRTagList"
    ELSE IF vr \in {vrOW, vrOB} THEN "VRBytes"
    ELSE IF vr \in {vrLT, vrUT} THEN "VRString"
    ELSE IF vr = vrUL THEN "VRUInt32List"
    ELSE IF vr = vrSL THEN "VRInt32List"
    ELSE IF vr = vrUS THEN "VRUInt16List"
    ELSE IF vr = vrSS THEN "VRInt16List"
    ELSE IF vr = vrFL THEN "VRFloat32List"
    ELSE IF vr = vrFD THEN "VRFloat64List"
    ELSE IF vr = vrSQ THEN "VRSequence"
    ELSE "VRStringList"

\* ------------------------------------------------------------------------
\* dicomuid and the transfer-syntax resolver

\* dicomuid.Lookup: the registry entries the model keeps, uid :> type
uidDict ==
    (ImplicitVRLittleEndian :> "TypeTransferSyntax")
    @@ (ExplicitVRLittleEndian :> "TypeTransferSyntax")
    @@ (ExplicitVRBigEndian :> "TypeTransferSyntax")
    @@ (DeflatedExplicitVRLittleEndian :> "TypeTransferSyntax")
    @@ (JPEGBaseline :> "TypeTransferSyntax")
    @@ (VerificationSOPClass :> "TypeSOPClass")

\* CanonicalTransferSyntaxUID: [uid, err]; a uid the registry does not know
\* comes back as the empty uid with a nil error
CanonicalTransferSyntaxUID(uid) ==
    IF uid \in {ImplicitVRLittleEndian, ExplicitVRLittleEndian,
                ExplicitVRBigEndian, DeflatedExplicitVRLittleEndian}
    THEN [uid |-> uid, err |-> Nil]
    ELSE IF uid \notin DOMAIN uidDict
    THEN [uid |-> <<>>, err |-> Nil]
    ELSE IF uidDict[uid] # "TypeTransferSyntax"
    THEN [uid |-> <<>>, err |-> MkError("is not a transfer syntax", -1)]
    ELSE [uid |-> ExplicitVRLittleEndian, err |-> Nil]

\* a switch that takes every explicit transfer syntax for little-endian
parseCanonicalLittle(c) ==
    IF c.err # Nil
    THEN [byteorder |-> NilByteOrder, implicit |-> UnknownVR, err |-> c.err, panic |-> FALSE]
    ELSE IF c.uid = ImplicitVRLittleEndian
    THEN [byteorder |-> LittleEndian, implicit |-> ImplicitVR, err |-> Nil, panic |-> FALSE]
    ELSE [byteorder |-> LittleEndian, implicit |-> ExplicitVR, err |-> Nil, panic |-> FALSE]

\* the switch of ParseTransferSyntaxUID on the canonical uid
parseCanonical(c) ==
    IF c.err # Nil
    THEN [byteorder |-> NilByteOrder, implicit |-> UnknownVR, err |-> c.err, panic |-> FALSE]
    ELSE IF c.uid = ImplicitVRLittleEndian
    THEN [byteorder |-> LittleEndian, implicit |-> ImplicitVR, err |-> Nil, panic |-> FALSE]
    ELSE IF c.uid \in {DeflatedExplicitVRLittleEndian, ExplicitVRLittleEndian}
    THEN [byteorder |-> LittleEndian, implicit |-> ExplicitVR, err |-> Nil, panic |-> FALSE]
    ELSE IF c.uid = ExplicitVRBigEndian
    THEN [byteorder |-> BigEndian, implicit |-> ExplicitVR, err |-> Nil, panic |-> FALSE]
    ELSE [byteorder |-> NilByteOrder, implicit |-> UnknownVR, err |-> Nil, panic |-> TRUE]

\* ParseTransferSyntaxUID: [byteorder, implicit, err, panic]
ParseTransferSyntaxUID(uid) ==
    parseCanonical(CanonicalTransferSyntaxUID(uid))

\* ------------------------------------------------------------------------
\* Character sets

RECURSIVE charsetDecoders(_, _)
\* the loop of ParseSpecificCharacterSet: the decoders of the names, or the
\* error at the first name that is not in the table
charsetDecoders(encodingNames, decoders) ==
    IF encodingNames = <<>> THEN [ok |-> TRUE, decoders |-> decoders]
    ELSE IF Head(encodingNames) \notin DOMAIN htmlEncodingNames
    THEN [ok |-> FALSE, decoders |-> <<>>]
    ELSE charsetDecoders(Tail(encodingNames),
                         Append(decoders, htmlEncodingNames[Head(encodingNames)]))

\* a switch that gives the first decoder to all three
codingSystemFirst(r) ==
    IF ~r.ok
    THEN [cs |-> NilCodingSystem, err |-> MkError("Unknown character set", -1)]
    ELSE IF Len(r.decoders) = 0 THEN [cs |-> NilCodingSystem, err |-> Nil]
    ELSE [cs |-> [Alphabetic |-> r.decoders[1], Ideographic |-> r.decoders[1],
                  Phonetic |-> r.decoders[1]], err |-> Nil]

\* the switch of ParseSpecificCharacterSet on the number of decoders
codingSystemOf(r) ==
    IF ~r.ok
    THEN [cs |-> NilCodingSystem, err |-> MkError("Unknown character set", -1)]
    ELSE IF Len(r.decoders) = 0 THEN [cs |-> NilCodingSystem, err |-> Nil]
    ELSE IF Len(r.decoders) = 1
    THEN [cs |-> [Alphabetic |-> r.decoders[1], Ideographic |-> r.decoders[1],
                  Phonetic |-> r.decoders[1]], err |-> Nil]
    ELSE IF Len(r.decoders) = 2
    THEN [cs |-> [Alphabetic |-> r.decoders[1], Ideographic |-> r.decoders[2],
                  Phonetic |-> r.decoders[2]], err |-> Nil]
    ELSE [cs |-> [Alphabetic |-> r.decoders[1], Ideographic |-> r.decoders[2],
                  Phonetic |-> r.decoders[3]], err |-> Nil]

\* ParseSpecificCharacterSet: [cs, err]
ParseSpecificCharacterSet(encodingNames) ==
    codingSystemOf(charsetDecoders(encodingNames, <<>>))

RECURSIVE decodeHigh(_)
\* a single-byte charset to UTF-8: an ASCII byte is itself, a byte b >= 128
\* becomes the two bytes of U+0080..U+00FF
decodeHigh(bytes) ==
    IF \A i \in 1..Len(bytes) : bytes[i] < 128 THEN bytes
    ELSE (IF Head(bytes) < 128
          THEN <<Head(bytes)>>
          ELSE <<192 + (Head(bytes) \div 64), 128 + (Head(bytes) % 64)>>)
         \o decodeHigh(Tail(bytes))

\* sd.Bytes(bytes) of the decoder named sd
decoderBytes(sd, bytes) ==
    IF sd = "utf-8" THEN bytes ELSE decodeHigh(bytes)

internalReadString(d, sd, length) ==
    Only({ IF Len(r.v) = 0 THEN [d |-> r.d, v |-> <<>>]
           ELSE IF sd = "" THEN r
           ELSE [d |-> r.d, v |-> decoderBytes(sd, r.v)]
           : r \in {ReadBytes(d, length)} })

ReadString(d, length) ==
    internalReadString(d, d.codingSystem.Ideographic, length)

\* ------------------------------------------------------------------------
\* Element and its value atoms.  A value of Go's interface{} is the record
\* [k |-> its dynamic type, v |-> the value].

StringV(s) == [k |-> "string", v |-> s]
BytesV(b) == [k |-> "[]byte", v |-> b]
UInt16V(n) == [k |-> "uint16", v |-> n]
UInt32V(n) == [k |-> "uint32", v |-> n]
Int16V(n) == [k |-> "int16", v |-> n]
Int32V(n) == [k |-> "int32", v |-> n]
Float32V(n) == [k |-> "float32", v |-> n]
Float64V(n) == [k |-> "float64", v |-> n]
TagV(t) == [k |-> "Tag", v |-> t]
ElementV(e) == [k |-> "*Element", v |-> e]
PixelDataInfoV(p) == [k |-> "PixelDataInfo", v |-> p]

\* PixelDataInfo{Offsets, Frames}
PixelDataInfo(offsets, frames) ==
    [Offsets |-> offsets, Frames |-> frames]

\* Element{Tag, VR, UndefinedLength, Value}
Element(tag, vr, undefinedLength, value) ==
    [Tag |-> tag, VR |-> vr, UndefinedLength |-> undefinedLength, Value |-> value]

\* endOfDataElement
endOfDataElement == Element(Tag(32767, 32767), <<>>, FALSE, <<>>)

\* what ReadElement returns: an element, nil, or the endOfDataElement pointer
IsElem == "elem"
IsNil == "nil"
IsEndOfData == "endOfData"

\* GetUInt32
GetUInt32(e) ==
    IF Len(e.Value) # 1 THEN [ok |-> FALSE, v |-> 0]
    ELSE IF e.Value[1].k # "uint32" THEN [ok |-> FALSE, v |-> 0]
    ELSE [ok |-> TRUE, v |-> e.Value[1].v]

\* GetString
GetString(e) ==
    IF Len(e.Value) # 1 THEN [ok |-> FALSE, v |-> <<>>]
    ELSE IF e.Value[1].k # "string" THEN [ok |-> FALSE, v |-> <<>>]
    ELSE [ok |-> TRUE, v |-> e.Value[1].v]

\* GetStrings
GetStrings(e) ==
    IF \E i \in 1..Len(e.Value) : e.Value[i].k # "string"
    THEN [ok |-> FALSE, v |-> <<>>]
    ELSE [ok |-> TRUE, v |-> [i \in 1..Len(e.Value) |-> e.Value[i].v]]

\* FindElementByTag: the index of the first element with the tag, 0 if none
FindElementByTag(elems, tag) ==
    IF \E i \in 1..Len(elems) : elems[i].Tag = tag
    THEN CHOOSE i \in 1..Len(elems) :
            /\ elems[i].Tag = tag
            /\ \A j \in 1..(i - 1) : elems[j].Tag # tag
    ELSE 0

tagInList(tag, tags) ==
    \E i \in 1..Len(tags) : tags[i] = tag

\* ReadOptions{DropPixelData, ReturnTags, StopAtTag}; a nil ReturnTags or
\* StopAtTag is <<>>, a set one is <<value>>
ReadOptions(dropPixelData, returnTags, stopAtTag) ==
    [DropPixelData |-> dropPixelData, ReturnTags |-> returnTags, StopAtTag |-> stopAtTag]

\* ReadOptions{}
NoOptions == ReadOptions(FALSE, <<>>, <<>>)

\* ------------------------------------------------------------------------
\* The element reader

\* the first index of s whose byte is in keep, or 0
IndexIn(s, keep) ==
    IF \E i \in 1..Len(s) : s[i] \in keep
    THEN CHOOSE i \in 1..Len(s) : s[i] \in keep /\ \A j \in 1..(i - 1) : s[j] \notin keep
    ELSE 0

\* the last index of s whose byte is in keep, or 0
LastIndexIn(s, keep) ==
    IF \E i \in 1..Len(s) : s[i] \in keep
    THEN CHOOSE i \in 1..Len(s) : s[i] \in keep /\ \A j \in (i + 1)..Len(s) : s[j] \notin keep
    ELSE 0

\* strings.TrimLeft(s, cutset)
TrimLeft(s, cutset) ==
    IF IndexIn(s, (0..255) \ cutset) = 0 THEN <<>>
    ELSE SubSeq(s, IndexIn(s, (0..255) \ cutset), Len(s))

\* strings.TrimRight(s, cutset)
TrimRight(s, cutset) ==
    SubSeq(s, 1, LastIndexIn(s, (0..255) \ cutset))

\* strings.Trim(s, " \000"): the blanks and NULs at both ends removed
Trim(s) ==
    TrimRight(TrimLeft(s, {32, 0}), {32, 0})

RECURSIVE Split(_)
\* strings.Split(s, "\\")
Split(s) ==
    Only({ IF i = 0 THEN <<s>>
           ELSE <<SubSeq(s, 1, i - 1)>> \o Split(SubSeq(s, i + 1, Len(s)))
           : i \in {IndexIn(s, {92})} })

readTag(d) ==
    Only({ Only({ [d |-> e.d, tag |-> Tag(g.v, e.v)] : e \in {ReadUInt16(g.d)} })
           : g \in {ReadUInt16(d)} })

\* an odd length that is not the undefined length is an error, and read as 0
oddLength(l) ==
    IF l.v # UndefinedLength /\ l.v % 2 # 0
    THEN [d |-> SetError(l.d, "Encountered odd length"), vl |-> 0]
    ELSE [d |-> l.d, vl |-> l.v]

readImplicit(d, tag) ==
    Only({ [d |-> o.d, vr |-> IF Find(tag).ok THEN Find(tag).VR ELSE vrUN, vl |-> o.vl]
           : o \in {oddLength(ReadUInt32(d))} })

\* the VRs whose explicit header has two reserved bytes and a 32-bit length
LongFormVRs ==
    {vrNA, vrOB, vrOD, vrOF, vrOL, vrOW, vrSQ, vrUN, vrUC, vrUR, vrUT}

\* the VRs readExplicit refuses an undefined length for
NoUndefinedLengthVRs ==
    {vrUC, vrUR, vrVI}

\* the switch of readExplicit on the VR it has read: the length as [d, v]
explicitLength(d, vr) ==
    IF vr \in LongFormVRs
    THEN Only({ IF l.v = UndefinedLength /\ vr \in NoUndefinedLengthVRs
                THEN [d |-> SetError(l.d, "may not have an undefined length"), v |-> 0]
                ELSE l
                : l \in {ReadUInt32(Skip(d, 2))} })
    ELSE Only({ [d |-> s.d, v |-> IF s.v = 65535 THEN UndefinedLength ELSE s.v]
                : s \in {ReadUInt16(d)} })

readExplicit(d, tag) ==
    Only({ Only({ [d |-> o.d, vr |-> s.v, vl |-> o.vl]
                  : o \in {oddLength(explicitLength(s.d, s.v))} })
           : s \in {ReadString(d, 2)} })

\* int(vl) / int64(vl) of a uint32.  A length of 2^31 or more (a negative
\* alias here) stands at half the int64 range of the model: beyond every
\* stream, and short of the overflow of pos + length, as 2^32 is in the code
IntOf(vl) ==
    IF vl < 0 THEN MaxInt64 \div 2 ELSE vl

\* readRawItem after the item's tag and header h have been read
rawItem(tag, h) ==
    IF h.d.err # Nil
    THEN [d |-> h.d, data |-> <<>>, endOfData |-> TRUE]
    ELSE IF tag = SequenceDelimitationItem
    THEN [d |-> IF h.vl # 0 THEN SetError(h.d, "SequenceDelimitationItem's VL != 0") ELSE h.d,
          data |-> <<>>, endOfData |-> TRUE]
    ELSE IF tag # Item
    THEN [d |-> SetError(h.d, "Expect Item in pixelData"), data |-> <<>>, endOfData |-> FALSE]
    ELSE IF h.vl = UndefinedLength
    THEN [d |-> SetError(h.d, "Expect defined-length item in pixelData"),
          data |-> <<>>, endOfData |-> FALSE]
    ELSE IF h.vr # vrNA
    THEN [d |-> SetError(h.d, "Expect NA item"), data |-> <<>>, endOfData |-> TRUE]
    ELSE Only({ [d |-> b.d, data |-> b.v, endOfData |-> FALSE]
                : b \in {ReadBytes(h.d, IntOf(h.vl))} })

\* readRawItem: [d, data, isNil (a nil data), endOfData]
readRawItem(d) ==
    Only({ rawItem(t.tag, readImplicit(t.d, t.tag)) : t \in {readTag(d)} })

RECURSIVE readOffsets(_, _)
\* the loop of readBasicOffsetTable over its sub-decoder
readOffsets(sub, offsets) ==
    IF EOF(sub) THEN offsets
    ELSE Only({ readOffsets(r.d, Append(offsets, r.v)) : r \in {ReadUInt32(sub)} })

\* readBasicOffsetTable: [d, offsets]
readBasicOffsetTable(d) ==
    Only({ [d |-> IF r.endOfData THEN SetError(r.d, "basic offset table not found") ELSE r.d,
            offsets |-> IF Len(r.data) = 0 THEN <<0>>
                        ELSE readOffsets(NewBytesDecoder(r.data, d.byteorder, ImplicitVR), <<>>)]
           : r \in {readRawItem(d)} })

RECURSIVE readFramesMerged(_, _)
\* a loop that combines the items into one frame
readFramesMerged(d, frames) ==
    IF EOF(d) THEN [d |-> d, frames |-> frames]
    ELSE Only({ IF r.d.err # Nil \/ r.endOfData
                THEN [d |-> r.d, frames |-> frames]
                ELSE readFramesMerged(r.d, IF frames = <<>> THEN <<r.data>>
                                           ELSE <<frames[1] \o r.data>>)
                : r \in {readRawItem(d)} })

RECURSIVE readFrames(_, _)
\* the loop of ReadElement over the items of an undefined-length PixelData
readFrames(d, frames) ==
    IF EOF(d) THEN [d |-> d, frames |-> frames]
    ELSE Only({ IF r.d.err # Nil \/ r.endOfData
                THEN [d |-> r.d, frames |-> frames]
                ELSE readFrames(r.d, Append(frames, r.data))
                : r \in {readRawItem(d)} })

RECURSIVE readWords(_, _, _)
\* the loop of the OW branch: n uint16s in the stream's byte order, written
\* back in the native byte order
readWords(d, n, out) ==
    IF n = 0 THEN [d |-> d, data |-> out]
    ELSE Only({ readWords(r.d, n - 1,
                          out \o (IF NativeByteOrder = BigEndian
                                  THEN <<r.v \div 256, r.v % 256>>
                                  ELSE <<r.v % 256, r.v \div 256>>))
                : r \in {ReadUInt16(d)} })

\* one typed read of the numeric branches, as a value atom
readNumber(d, vr) ==
    IF vr = vrUL THEN Only({ [d |-> r.d, v |-> UInt32V(r.v)] : r \in {ReadUInt32(d)} })
    ELSE IF vr = vrSL THEN Only({ [d |-> r.d, v |-> Int32V(r.v)] : r \in {ReadInt32(d)} })
    ELSE IF vr = vrUS THEN Only({ [d |-> r.d, v |-> UInt16V(r.v)] : r \in {ReadUInt16(d)} })
    ELSE IF vr = vrSS THEN Only({ [d |-> r.d, v |-> Int16V(r.v)] : r \in {ReadInt16(d)} })
    ELSE IF vr \in {vrFL, vrOF}
    THEN Only({ [d |-> r.d, v |-> Float32V(r.v)] : r \in {ReadFloat32(d)} })
    ELSE Only({ [d |-> r.d, v |-> Float64V(r.v)] : r \in {ReadFloat64(d)} })

RECURSIVE readNumbers(_, _, _)
\* for !d.EOF() { data = append(data, d.ReadXxx()) }
readNumbers(d, vr, data) ==
    IF EOF(d) THEN [d |-> d, data |-> data]
    ELSE Only({ readNumbers(r.d, vr, Append(data, r.v)) : r \in {readNumber(d, vr)} })

RECURSIVE readTags(_, _)
\* the loop of the AT branch
readTags(d, data) ==
    IF EOF(d) THEN [d |-> d, data |-> data]
    ELSE Only({ readTags(r.d, Append(data, TagV(r.tag))) : r \in {readTag(d)} })

\* the numeric VRs of the scalar branch
NumberVRs ==
    {vrUL, vrSL, vrUS, vrSS, vrFL, vrOF, vrFD, vrOD}

\* the VRs read as one string that is not trimmed
UntrimmedVRs ==
    {vrLT, vrUT}

\* the values of the string branches of ReadElement: DA is one trimmed
\* string, LT and UT one string as read, any other VR is trimmed and split
stringValues(vr, v) ==
    IF vr = vrDA THEN <<StringV(Trim(v))>>
    ELSE IF vr \in UntrimmedVRs THEN <<StringV(v)>>
    ELSE IF Len(Trim(v)) > 0
    THEN Only({ [i \in 1..Len(parts) |-> StringV(parts[i])] : parts \in {Split(Trim(v))} })
    ELSE <<>>

\* the scalar branch of ReadElement between PushLimit and PopLimit: [d, data]
readScalar(d, tag, vr, vl) ==
    IF vr = vrAT THEN readTags(d, <<>>)
    ELSE IF vr = vrOW
    THEN IF vl % 2 # 0
         THEN [d |-> SetError(d, "OW requires even length"), data |-> <<>>]
         ELSE Only({ [d |-> w.d, data |-> <<BytesV(w.data)>>]
                     : w \in {readWords(d, vl \div 2, <<>>)} })
    ELSE IF vr = vrOB
    THEN Only({ [d |-> b.d, data |-> <<BytesV(b.v)>>] : b \in {ReadBytes(d, IntOf(vl))} })
    ELSE IF vr \in NumberVRs THEN readNumbers(d, vr, <<>>)
    ELSE Only({ [d |-> s.d, data |-> stringValues(vr, s.v)]
                : s \in {ReadString(d, IntOf(vl))} })

\* the stop test of ReadElement for options.StopAtTag
stopAtTag(tag, options) ==
    /\ options.StopAtTag # <<>>
    /\ tag.Group >= options.StopAtTag[1].Group
    /\ tag.Element >= options.StopAtTag[1].Element

\* a reader that drops the pixel data wherever it finds it, whatever the
\* options it is given
dropPixelDataAlways(tag, options) ==
    tag = PixelData

\* a reader that never drops the pixel data
dropNothing(tag, options) ==
    FALSE

\* the test of ReadElement for options.DropPixelData
dropPixelData(tag, options) ==
    tag = PixelData /\ options.DropPixelData

\* a reader that codes the elements of the item group by the transfer syntax
implicitBySyntax(tag, implicit) ==
    implicit

\* the coding ReadElement reads the header in: the elements of group FFFE
\* are implicit whatever the transfer syntax
itemGroupImplicit(tag, implicit) ==
    IF tag.Group = ItemSeqGroup THEN ImplicitVR ELSE implicit

RECURSIVE ReadElement(_, _)
RECURSIVE readSequenceUndefined(_, _)
RECURSIVE readSequenceDefined(_, _)
RECURSIVE readItemUndefined(_, _)
RECURSIVE readItemDefined(_, _)

\* the loop over the items of an undefined-length sequence: [d, data]
readSequenceUndefined(d, data) ==
    Only({ IF r.d.err # Nil \/ r.d.panic THEN [d |-> r.d, data |-> data]
           ELSE IF r.elem.Tag = SequenceDelimitationItem THEN [d |-> r.d, data |-> data]
           ELSE IF r.elem.Tag # Item
           THEN [d |-> SetError(r.d, "Found non-Item element in seq"), data |-> data]
           ELSE readSequenceUndefined(r.d, Append(data, ElementV(r.elem)))
           : r \in {ReadElement(d, NoOptions)} })

\* the loop over the items of a defined-length sequence, inside its window
readSequenceDefined(d, data) ==
    IF EOF(d) THEN [d |-> d, data |-> data]
    ELSE Only({ IF r.d.err # Nil \/ r.d.panic THEN [d |-> r.d, data |-> data]
                ELSE IF r.elem.Tag # Item
                THEN [d |-> SetError(r.d, "Found non-Item element in seq"), data |-> data]
                ELSE readSequenceDefined(r.d, Append(data, ElementV(r.elem)))
                : r \in {ReadElement(d, NoOptions)} })

\* the loop over the elements of an undefined-length item
readItemUndefined(d, data) ==
    Only({ IF r.d.err # Nil \/ r.d.panic THEN [d |-> r.d, data |-> data]
           ELSE IF r.elem.Tag = ItemDelimitationItem THEN [d |-> r.d, data |-> data]
           ELSE readItemUndefined(r.d, Append(data, ElementV(r.elem)))
           : r \in {ReadElement(d, NoOptions)} })

\* the loop over the elements of a defined-length item, inside its window
readItemDefined(d, data) ==
    IF EOF(d) THEN [d |-> d, data |-> data]
    ELSE Only({ IF r.d.err # Nil \/ r.d.panic THEN [d |-> r.d, data |-> data]
                ELSE readItemDefined(r.d, Append(data, ElementV(r.elem)))
                : r \in {ReadElement(d, NoOptions)} })

\* the PixelData branch of ReadElement: [d, data]
readPixelData(d, vl) ==
    IF vl = UndefinedLength
    THEN Only({ Only({ [d |-> f.d,
                        data |-> <<PixelDataInfoV(PixelDataInfo(o.offsets, f.frames))>>]
                       : f \in {readFrames(o.d, <<>>)} })
                : o \in {readBasicOffsetTable(d)} })
    ELSE Only({ [d |-> b.d, data |-> <<PixelDataInfoV(PixelDataInfo(<<>>, <<b.v>>))>>]
                : b \in {ReadBytes(d, IntOf(vl))} })

\* d.PopLimit() at the end of a branch that read inside a window; a deferred
\* PopLimit runs on a panic as well
popLimitAfter(r, deferred) ==
    IF r.d.panic /\ ~deferred THEN r
    ELSE [d |-> PopLimit(r.d), data |-> r.data]

\* the branches of ReadElement on the tag, the VR and the length: [d, data]
readValue(d, tag, vr, vl) ==
    IF tag = PixelData THEN readPixelData(d, vl)
    ELSE IF vr = vrSQ
    THEN IF vl = UndefinedLength
         THEN readSequenceUndefined(d, <<>>)
         ELSE popLimitAfter(readSequenceDefined(PushLimit(d, IntOf(vl)), <<>>), FALSE)
    ELSE IF tag = Item
    THEN IF vl = UndefinedLength
         THEN readItemUndefined(d, <<>>)
         ELSE popLimitAfter(readItemDefined(PushLimit(d, IntOf(vl)), <<>>), FALSE)
    ELSE popLimitAfter(readScalar(PushLimit(d, IntOf(vl)), tag, vr, vl), TRUE)

\* ReadElement after the header: the element of tag, VR and length, or nil
\* for a scalar of undefined length
readElementValue(d, tag, vr, vl) ==
    IF tag # PixelData /\ vr # vrSQ /\ tag # Item /\ vl = UndefinedLength
    THEN [d |-> SetError(d, "Undefined length disallowed"),
          elem |-> endOfDataElement, is |-> IsNil]
    ELSE Only({ [d |-> r.d, is |-> IsElem,
                 elem |-> Element(tag, vr, vl = UndefinedLength, r.data)]
                : r \in {readValue(d, tag, vr, vl)} })

\* ReadElement after the tag: the header by the transfer syntax, Item-group
\* elements being implicit, and <UN, undefined length> read as SQ
readElementHeader(d, tag, implicit) ==
    IF implicit \notin {ImplicitVR, ExplicitVR}
    THEN [d |-> [d EXCEPT !.panic = TRUE], elem |-> endOfDataElement, is |-> IsNil]
    ELSE Only({ readElementValue(h.d, tag,
                                 IF h.vr = vrUN /\ h.vl = UndefinedLength THEN vrSQ ELSE h.vr,
                                 h.vl)
                : h \in {IF implicit = ImplicitVR
                         THEN readImplicit(d, tag)
                         ELSE readExplicit(d, tag)} })

\* ReadElement: [d, elem, is], is telling an element from nil and from the
\* endOfDataElement pointer
ReadElement(d, options) ==
    Only({ IF dropPixelData(t.tag, options)
           THEN [d |-> t.d, elem |-> endOfDataElement, is |-> IsEndOfData]
           ELSE IF stopAtTag(t.tag, options)
           THEN [d |-> t.d, elem |-> endOfDataElement, is |-> IsEndOfData]
           ELSE readElementHeader(t.d, t.tag, itemGroupImplicit(t.tag, d.implicit))
           : t \in {readTag(d)} })

\* ------------------------------------------------------------------------
\* The dataset driver, read path

RECURSIVE readMetaElements(_, _)
\* the loop of ParseFileHeader over the group-length window: [d, elems]
readMetaElements(d, elems) ==
    IF EOF(d) THEN [d |-> d, elems |-> elems]
    ELSE Only({ IF r.d.err # Nil \/ r.d.panic THEN [d |-> r.d, elems |-> elems]
                ELSE readMetaElements(r.d, Append(elems, r.elem))
                : r \in {ReadElement(d, NoOptions)} })

\* ParseFileHeader from the PushLimit of the group length to the deferred
\* PopLimit: [d, elems, isNil]
readMetaWindow(d, metaElement, metaLength) ==
    Only({ [d |-> PopLimit(r.d), elems |-> r.elems, isNil |-> FALSE]
           : r \in {readMetaElements(PushLimit(d, IntOf(metaLength)), <<metaElement>>)} })

\* ParseFileHeader after its first element has been read without an error;
\* d is the decoder after the tag test, metaLength is [ok, v]
readMetaLength(d, metaElement, metaLength) ==
    IF ~metaLength.ok
    THEN [d |-> SetError(d, "Failed to read uint32 in MetaElementGroupLength"),
          elems |-> <<>>, isNil |-> TRUE]
    ELSE IF EOF(d)
    THEN [d |-> SetError(d, "No data element found"), elems |-> <<>>, isNil |-> TRUE]
    ELSE readMetaWindow(d, metaElement, metaLength.v)

\* ParseFileHeader after the magic word: the element that must be the
\* FileMetaInformationGroupLength
readMetaElement(m) ==
    IF m.d.err # Nil \/ m.d.panic
    THEN [d |-> m.d, elems |-> <<>>, isNil |-> TRUE]
    ELSE readMetaLength(IF m.elem.Tag # FileMetaInformationGroupLength
                        THEN SetError(m.d, "MetaElementGroupLength not found")
                        ELSE m.d,
                        m.elem, GetUInt32(m.elem))

\* ParseFileHeader between PushTransferSyntax and the deferred
\* PopTransferSyntax: [d, elems, isNil]
parseFileHeaderBody(d) ==
    Only({ IF magic.v # DICM
           THEN [d |-> SetError(magic.d, "keyword 'DICM' not found in the header"),
                 elems |-> <<>>, isNil |-> TRUE]
           ELSE readMetaElement(ReadElement(magic.d, NoOptions))
           : magic \in {ReadString(Skip(d, 128), 4)} })

\* ParseFileHeader: [d, elems, isNil]
ParseFileHeader(d) ==
    Only({ [d |-> PopTransferSyntax(r.d), elems |-> r.elems, isNil |-> r.isNil]
           : r \in {parseFileHeaderBody(PushTransferSyntax(d, LittleEndian, ExplicitVR))} })

\* a getTransferSyntax that takes explicit-VR little-endian whatever the
\* meta elements declare
getTransferSyntaxExplicit(elems) ==
    [byteorder |-> LittleEndian, implicit |-> ExplicitVR, err |-> Nil, panic |-> FALSE]

\* a getTransferSyntax that takes explicit-VR little-endian when the meta
\* elements hold no TransferSyntaxUID
getTransferSyntaxOrDefault(elems) ==
    IF FindElementByTag(elems, TransferSyntaxUID) = 0
    THEN [byteorder |-> LittleEndian, implicit |-> ExplicitVR,
          err |-> Nil, panic |-> FALSE]
    ELSE IF ~GetString(elems[FindElementByTag(elems, TransferSyntaxUID)]).ok
    THEN [byteorder |-> NilByteOrder, implicit |-> UnknownVR,
          err |-> MkError("string value not found", -1), panic |-> FALSE]
    ELSE ParseTransferSyntaxUID(GetString(elems[FindElementByTag(elems, TransferSyntaxUID)]).v)

\* getTransferSyntax: ParseTransferSyntaxUID of the dataset's first
\* TransferSyntaxUID element, or the error
getTransferSyntax(elems) ==
    IF FindElementByTag(elems, TransferSyntaxUID) = 0
    THEN [byteorder |-> NilByteOrder, implicit |-> UnknownVR,
          err |-> MkError("element not found", -1), panic |-> FALSE]
    ELSE Only({ IF ~s.ok
                THEN [byteorder |-> NilByteOrder, implicit |-> UnknownVR,
                      err |-> MkError("string value not found", -1), panic |-> FALSE]
                ELSE ParseTransferSyntaxUID(s.v)
                : s \in {GetString(elems[FindElementByTag(elems, TransferSyntaxUID)])} })

\* what ReadDataSet does with a SpecificCharacterSet element
updateCodingSystem(d, elem) ==
    IF ~GetStrings(elem).ok THEN SetError(d, "string value not found")
    ELSE Only({ IF cs.err # Nil THEN SetError(d, cs.err.msg)
                ELSE SetCodingSystem(d, cs.cs)
                : cs \in {ParseSpecificCharacterSet(GetStrings(elem).v)} })

\* whether ReadDataSet keeps an element under options.ReturnTags
returned(tag, options) ==
    \/ options.ReturnTags = <<>>
    \/ tagInList(tag, options.ReturnTags[1])

RECURSIVE readElements(_, _, _)
\* the loop of ReadDataSet over the body: [d, elems]
readElements(d, elems, options) ==
    IF EOF(d) THEN [d |-> d, elems |-> elems]
    ELSE Only({ IF r.d.panic THEN [d |-> r.d, elems |-> elems]
                ELSE IF BytesRead(r.d) <= BytesRead(d)
                THEN [d |-> [r.d EXCEPT !.panic = TRUE], elems |-> elems]
                ELSE IF r.is = IsEndOfData THEN [d |-> r.d, elems |-> elems]
                ELSE readElements(IF r.is = IsElem /\ r.elem.Tag = SpecificCharacterSet
                                  THEN updateCodingSystem(r.d, r.elem)
                                  ELSE r.d,
                                  IF r.is = IsElem /\ returned(r.elem.Tag, options)
                                  THEN Append(elems, r.elem)
                                  ELSE elems,
                                  options)
                : r \in {ReadElement(d, options)} })

\* the result of ReadDataSet: [Elements, isNil (a nil *DataSet), err, panic,
\* d (the decoder as the call leaves it)]
DataSetResult(elems, isNil, err, panic, d) ==
    [Elements |-> elems, isNil |-> isNil, err |-> err, panic |-> panic, d |-> d]

\* ReadDataSet from PushTransferSyntax to the deferred PopTransferSyntax
readBody(d, elems, options) ==
    Only({ IF r.d.panic
           THEN DataSetResult(<<>>, TRUE, Nil, TRUE, PopTransferSyntax(r.d))
           ELSE DataSetResult(r.elems, FALSE, r.d.err, FALSE, PopTransferSyntax(r.d))
           : r \in {readElements(d, elems, options)} })

\* a ReadDataSet that returns the meta elements parsed so far when the header
\* fails
readAfterHeaderPartial(h, options) ==
    IF h.d.panic THEN DataSetResult(<<>>, TRUE, Nil, TRUE, h.d)
    ELSE IF h.d.err # Nil THEN DataSetResult(h.elems, FALSE, h.d.err, FALSE, h.d)
    ELSE IF getTransferSyntax(h.elems).panic
    THEN DataSetResult(<<>>, TRUE, Nil, TRUE, h.d)
    ELSE IF getTransferSyntax(h.elems).err # Nil
    THEN DataSetResult(h.elems, FALSE, getTransferSyntax(h.elems).err, FALSE, h.d)
    ELSE readBody(PushTransferSyntax(h.d, getTransferSyntax(h.elems).byteorder,
                                     getTransferSyntax(h.elems).implicit),
                  h.elems, options)

\* ReadDataSet after ParseFileHeader
readAfterHeader(h, options) ==
    IF h.d.panic THEN DataSetResult(<<>>, TRUE, Nil, TRUE, h.d)
    ELSE IF h.d.err # Nil THEN DataSetResult(<<>>, TRUE, h.d.err, FALSE, h.d)
    ELSE Only({ IF ts.panic THEN DataSetResult(<<>>, TRUE, Nil, TRUE, h.d)
                ELSE IF ts.err # Nil THEN DataSetResult(<<>>, TRUE, ts.err, FALSE, h.d)
                ELSE readBody(PushTransferSyntax(h.d, ts.byteorder, ts.implicit),
                              h.elems, options)
                : ts \in {getTransferSyntax(h.elems)} })

\* ReadDataSet
ReadDataSet(in, options) ==
    readAfterHeader(ParseFileHeader(NewBytesDecoder(in, LittleEndian, ExplicitVR)), options)

\* ------------------------------------------------------------------------
\* dicomio.Encoder.  "room" is the number of bytes the underlying io.Writer
\* still takes before its Write fails (MaxInt64 for a bytes.Buffer).

NewEncoder(room, byteorder, implicit) ==
    [out |-> <<>>, room |-> room, err |-> Nil, byteorder |-> byteorder,
     implicit |-> implicit, oldTransferSyntaxes |-> <<>>, panic |-> FALSE]

NewBytesEncoder(byteorder, implicit) ==
    NewEncoder(MaxInt64, byteorder, implicit)

\* Encoder.SetError, err being an error value
EncSetError(e, err) ==
    IF err # Nil /\ e.err = Nil THEN [e EXCEPT !.err = err] ELSE e

\* Encoder.SetErrorf
EncSetErrorf(e, msg) ==
    EncSetError(e, MkError(msg, -1))

\* Encoder.PushTransferSyntax
EncPushTransferSyntax(e, byteorder, implicit) ==
    [e EXCEPT !.oldTransferSyntaxes = Append(@, [byteorder |-> e.byteorder, implicit |-> e.implicit]),
              !.byteorder = byteorder,
              !.implicit = implicit]

\* Encoder.PopTransferSyntax
EncPopTransferSyntax(e) ==
    IF e.oldTransferSyntaxes = <<>>
    THEN [e EXCEPT !.panic = TRUE]
    ELSE [e EXCEPT !.byteorder = Last(e.oldTransferSyntaxes).byteorder,
                   !.implicit = Last(e.oldTransferSyntaxes).implicit,
                   !.oldTransferSyntaxes = Front(@)]

\* e.out.Write(p): [e, ok]; a failing Write takes the bytes there is room for
outWrite(e, p) ==
    IF e.room = MaxInt64
    THEN [e |-> [e EXCEPT !.out = @ \o p], ok |-> TRUE]
    ELSE IF Len(p) <= e.room
    THEN [e |-> [e EXCEPT !.out = @ \o p, !.room = @ - Len(p)], ok |-> TRUE]
    ELSE [e |-> [e EXCEPT !.out = @ \o SubSeq(p, 1, e.room), !.room = 0], ok |-> FALSE]

\* the n bytes of v, least significant first (v \div and % are those of the
\* two's complement image)
RECURSIVE leBytes(_, _)
leBytes(v, n) ==
    IF n = 0 THEN <<>> ELSE <<v % 256>> \o leBytes(v \div 256, n - 1)

\* the n bytes of v in the byte order
orderBytes(byteorder, v, n) ==
    IF byteorder = BigEndian
    THEN Only({ [i \in 1..n |-> b[n + 1 - i]] : b \in {leBytes(v, n)} })
    ELSE leBytes(v, n)

\* if err := ...Write(...); err != nil { e.SetError(err) }, w being [e, ok]
writeChecked(w) ==
    IF w.ok THEN w.e ELSE EncSetErrorf(w.e, "write failed")

\* binary.Write(e.out, e.byteorder, &v) of an n-byte value, the error recorded
writeFixed(e, v, n) ==
    IF e.byteorder = NilByteOrder THEN [e EXCEPT !.panic = TRUE]
    ELSE writeChecked(outWrite(e, orderBytes(e.byteorder, v, n)))

WriteByte(e, v) == writeFixed(e, v, 1)
WriteUInt16(e, v) == writeFixed(e, v, 2)
WriteUInt32(e, v) == writeFixed(e, v, 4)
WriteInt16(e, v) == writeFixed(e, v, 2)
WriteInt32(e, v) == writeFixed(e, v, 4)
WriteFloat32(e, v) == writeFixed(e, v, 4)

\* a float64 is <<high word, low word>>
WriteFloat64(e, v) ==
    IF e.byteorder = NilByteOrder THEN [e EXCEPT !.panic = TRUE]
    ELSE writeChecked(outWrite(e, IF e.byteorder = BigEndian
                                  THEN orderBytes(BigEndian, v[1], 4)
                                       \o orderBytes(BigEndian, v[2], 4)
                                  ELSE leBytes(v[2], 4) \o leBytes(v[1], 4)))

WriteString(e, v) ==
    writeChecked(outWrite(e, v))

\* WriteZeros and WriteBytes drop the error of the Write
WriteZeros(e, len) ==
    outWrite(e, Zeros(len)).e

WriteBytes(e, v) ==
    outWrite(e, v).e

\* Encoder.Bytes: [e, v]; it panics on a pending transfer-syntax push and on
\* an encoder in error
Bytes(e) ==
    IF e.oldTransferSyntaxes # <<>> \/ e.err # Nil
    THEN [e |-> [e EXCEPT !.panic = TRUE], v |-> <<>>]
    ELSE [e |-> e, v |-> e.out]

\* ------------------------------------------------------------------------
\* The element writer

\* the type switch of NewElement: whether the value v fits the VR kind
payloadFits(vrKind, v) ==
    IF vrKind \in {"VRStringList", "VRDate"} THEN v.k = "string"
    ELSE IF vrKind = "VRBytes" THEN v.k = "[]byte"
    ELSE IF vrKind = "VRUInt16List" THEN v.k = "uint16"
    ELSE IF vrKind = "VRUInt32List" THEN v.k = "uint32"
    ELSE IF vrKind = "VRInt16List" THEN v.k = "int16"
    ELSE IF vrKind = "VRInt32List" THEN v.k = "int32"
    ELSE IF vrKind = "VRFloat32List" THEN v.k = "float32"
    ELSE IF vrKind = "VRFloat64List" THEN v.k = "float64"
    ELSE IF vrKind = "VRPixelData" THEN v.k = "PixelDataInfo"
    ELSE IF vrKind = "VRTagList" THEN v.k = "Tag"
    ELSE IF vrKind = "VRSequence" THEN v.k = "*Element" /\ v.v.Tag = Item
    ELSE IF vrKind = "VRItem" THEN v.k = "*Element"
    ELSE FALSE

\* NewElement: [ok, elem]; ok = FALSE is the error, with a nil element
NewElement(tag, values) ==
    IF ~Find(tag).ok THEN [ok |-> FALSE, elem |-> endOfDataElement]
    ELSE IF \E i \in 1..Len(values) :
                ~payloadFits(GetVRKind(tag, Find(tag).VR), values[i])
    THEN [ok |-> FALSE, elem |-> endOfDataElement]
    ELSE [ok |-> TRUE, elem |-> Element(tag, Find(tag).VR, FALSE, values)]

\* MustNewElement: [elem, panic]
MustNewElement(tag, values) ==
    Only({ [elem |-> r.elem, panic |-> ~r.ok] : r \in {NewElement(tag, values)} })

\* uint16(vl)
Uint16Of(vl) ==
    vl % 65536

\* encodeElementHeader after the tag has been written
encodeLength(e, implicit, vr, vl) ==
    IF e.panic THEN e
    ELSE IF implicit = ExplicitVR
    THEN IF Len(vr) # 2 THEN [e EXCEPT !.panic = TRUE]
         ELSE IF vr \in LongFormVRs
         THEN WriteUInt32(WriteZeros(WriteString(e, vr), 2), vl)
         ELSE WriteUInt16(WriteString(e, vr), Uint16Of(vl))
    ELSE IF implicit # ImplicitVR THEN [e EXCEPT !.panic = TRUE]
    ELSE WriteUInt32(e, vl)

\* encodeElementHeader
encodeElementHeader(e, tag, vr, vl) ==
    IF ~(vl = UndefinedLength \/ vl % 2 = 0) THEN [e EXCEPT !.panic = TRUE]
    ELSE encodeLength(WriteUInt16(WriteUInt16(e, tag.Group), tag.Element),
                      IF tag.Group = ItemSeqGroup THEN ImplicitVR ELSE e.implicit,
                      vr, vl)

\* e.WriteBytes(data) after a call that may have panicked
thenWriteBytes(e, data) ==
    IF e.panic THEN e ELSE WriteBytes(e, data)

writeRawItem(e, data) ==
    thenWriteBytes(encodeElementHeader(e, Item, vrNA, Len(data)), data)

RECURSIVE writeOffsets(_, _)
\* the loop of writeBasicOffsetTable over its sub-encoder
writeOffsets(sub, offsets) ==
    IF offsets = <<>> THEN sub
    ELSE writeOffsets(WriteUInt32(sub, Head(offsets)), Tail(offsets))

writeBasicOffsetTable(e, offsets) ==
    IF e.panic THEN e
    ELSE Only({ IF b.e.panic THEN [e EXCEPT !.panic = TRUE] ELSE writeRawItem(e, b.v)
                : b \in {Bytes(writeOffsets(NewBytesEncoder(e.byteorder, ImplicitVR),
                                            offsets))} })

RECURSIVE writeFrames(_, _)
\* for _, image := range image.Frames { writeRawItem(e, image) }
writeFrames(e, frames) ==
    IF frames = <<>> \/ e.panic THEN e
    ELSE writeFrames(writeRawItem(e, Head(frames)), Tail(frames))

\* encodeElementHeader of a delimiter after a call that may have panicked
thenDelimiter(e, tag) ==
    IF e.panic THEN e ELSE encodeElementHeader(e, tag, <<>>, 0)

\* the PixelData branch of WriteElement after the type assertion
writeImage(e, elem, vr, image) ==
    IF elem.UndefinedLength
    THEN thenDelimiter(
             writeFrames(
                 writeBasicOffsetTable(
                     encodeElementHeader(e, elem.Tag, vr, UndefinedLength),
                     image.Offsets),
                 image.Frames),
             SequenceDelimitationItem)
    ELSE IF Len(image.Frames) # 1 THEN [e EXCEPT !.panic = TRUE]
    ELSE thenWriteBytes(encodeElementHeader(e, elem.Tag, vr, Len(image.Frames[1])),
                        image.Frames[1])

\* the PixelData branch of WriteElement; e is the encoder after the test of
\* len(elem.Value), and elem.Value[0] of an empty Value panics
writePixelData(e, elem, vr) ==
    IF Len(elem.Value) = 0 THEN [e EXCEPT !.panic = TRUE]
    ELSE IF elem.Value[1].k = "PixelDataInfo"
    THEN writeImage(e, elem, vr, elem.Value[1].v)
    ELSE writeImage(EncSetErrorf(e, "PixelData value must be PixelDataInfo"),
                    elem, vr, PixelDataInfo(<<>>, <<>>))

\* the Go type a numeric VR wants of its values
numberType(vr) ==
    IF vr = vrUS THEN "uint16"
    ELSE IF vr = vrUL THEN "uint32"
    ELSE IF vr = vrSL THEN "int32"
    ELSE IF vr = vrSS THEN "int16"
    ELSE IF vr \in {vrFL, vrOF} THEN "float32"
    ELSE "float64"

\* sube.WriteXxx(v) of a numeric VR
writeNumber(sube, vr, v) ==
    IF vr = vrUS THEN WriteUInt16(sube, v)
    ELSE IF vr = vrUL THEN WriteUInt32(sube, v)
    ELSE IF vr = vrSL THEN WriteInt32(sube, v)
    ELSE IF vr = vrSS THEN WriteInt16(sube, v)
    ELSE IF vr \in {vrFL, vrOF} THEN WriteFloat32(sube, v)
    ELSE WriteFloat64(sube, v)

RECURSIVE writeNumbers(_, _, _, _)
\* the loop of a numeric VR: a value of the wrong type is an error on e and
\* is skipped: [e, sube]
writeNumbers(e, sube, vr, values) ==
    IF values = <<>> THEN [e |-> e, sube |-> sube]
    ELSE IF Head(values).k # numberType(vr)
    THEN writeNumbers(EncSetErrorf(e, "wrong value type"), sube, vr, Tail(values))
    ELSE writeNumbers(e, writeNumber(sube, vr, Head(values).v), vr, Tail(values))

RECURSIVE joinStrings(_, _, _, _)
\* the loop of the string VRs: the values joined by "\\", a value that is no
\* string being an error on e and skipped: [e, s]
joinStrings(e, values, i, s) ==
    IF i > Len(values) THEN [e |-> e, s |-> s]
    ELSE IF values[i].k # "string"
    THEN joinStrings(EncSetErrorf(e, "non-string value"), values, i + 1, s)
    ELSE joinStrings(e, values, i + 1,
                     (IF i > 1 THEN Append(s, 92) ELSE s) \o values[i].v)

RECURSIVE swapWords(_, _, _)
\* the OW loop of WriteElement: n uint16s read in the native byte order and
\* written in the encoder's
swapWords(sube, d, n) ==
    IF n = 0 THEN sube
    ELSE Only({ swapWords(WriteUInt16(sube, r.v), r.d, n - 1) : r \in {ReadUInt16(d)} })

\* the byte that pads an odd-length string of the VR
padByte(vr) ==
    IF vr = vrUI THEN 0 ELSE 32

\* a writer that never pads
padNever(sube, length, pad) ==
    sube

\* sube.WriteByte(pad) when what was written has an odd length
padOdd(sube, length, pad) ==
    IF length % 2 = 1 THEN WriteByte(sube, pad) ELSE sube

\* the OW and OB cases of WriteElement: [e, sube]
writeBinary(e, sube, elem, vr) ==
    IF Len(elem.Value) # 1
    THEN [e |-> EncSetErrorf(e, "expect a single value"), sube |-> sube]
    ELSE IF elem.Value[1].k # "[]byte"
    THEN [e |-> EncSetErrorf(e, "expect a binary string"), sube |-> sube]
    ELSE IF vr = vrOB
    THEN [e |-> e,
          sube |-> padOdd(WriteBytes(sube, elem.Value[1].v), Len(elem.Value[1].v), 0)]
    ELSE IF Len(elem.Value[1].v) % 2 # 0
    THEN [e |-> EncSetErrorf(e, "expect a binary string of even length"), sube |-> sube]
    ELSE [e |-> e,
          sube |-> swapWords(sube,
                             NewBytesDecoder(elem.Value[1].v, NativeByteOrder, UnknownVR),
                             Len(elem.Value[1].v) \div 2)]

\* the scalar branch of WriteElement up to the payload: [e, sube]
writeScalar(e, sube, elem, vr) ==
    IF vr \in NumberVRs THEN writeNumbers(e, sube, vr, elem.Value)
    ELSE IF vr \in {vrOW, vrOB} THEN writeBinary(e, sube, elem, vr)
    ELSE Only({ [e |-> j.e, sube |-> padOdd(WriteString(sube, j.s), Len(j.s), padByte(vr))]
                : j \in {joinStrings(e, elem.Value, 1, <<>>)} })

RECURSIVE WriteElement(_, _)
RECURSIVE writeChildren(_, _, _, _)
RECURSIVE writeInline(_, _, _)

\* a value of a sequence (mustBeItem) or of an item that WriteElement accepts
isChild(value, mustBeItem) ==
    /\ value.k = "*Element"
    /\ mustBeItem => value.v.Tag = Item

\* the loop of the defined-length SQ and NA branches: the children are
\* written to sube, a value that is no element (no Item) is an error on e and
\* ends the call: [e, sube, returned]
writeChildren(e, sube, values, mustBeItem) ==
    IF values = <<>> THEN [e |-> e, sube |-> sube, returned |-> FALSE]
    ELSE IF ~isChild(Head(values), mustBeItem)
    THEN [e |-> EncSetErrorf(e, "value must be an element"), sube |-> sube,
          returned |-> TRUE]
    ELSE Only({ IF w.panic
                THEN [e |-> [e EXCEPT !.panic = TRUE], sube |-> w, returned |-> TRUE]
                ELSE writeChildren(e, w, Tail(values), mustBeItem)
                : w \in {WriteElement(sube, Head(values).v)} })

\* the loop of the undefined-length SQ and NA branches, the children written
\* to e itself: [e, returned]
writeInline(e, values, mustBeItem) ==
    IF e.panic THEN [e |-> e, returned |-> TRUE]
    ELSE IF values = <<>> THEN [e |-> e, returned |-> FALSE]
    ELSE IF ~isChild(Head(values), mustBeItem)
    THEN [e |-> EncSetErrorf(e, "value must be an element"), returned |-> TRUE]
    ELSE writeInline(WriteElement(e, Head(values).v), Tail(values), mustBeItem)

\* the header of the measured payload and the payload, b being [e, v] of
\* sube.Bytes()
writeHeaderAndBytes(e, b, tag, vr) ==
    IF b.e.panic THEN [e EXCEPT !.panic = TRUE]
    ELSE thenWriteBytes(encodeElementHeader(e, tag, vr, Len(b.v)), b.v)

\* the close of a defined-length branch: the payload measured in sube, then
\* the header and the payload on e
writeMeasured(e, sube, tag, vr) ==
    IF sube.panic THEN [e EXCEPT !.panic = TRUE]
    ELSE IF sube.err # Nil THEN EncSetError(e, sube.err)
    ELSE writeHeaderAndBytes(e, Bytes(sube), tag, vr)

\* the end of an undefined-length SQ or NA branch, u being [e, returned]
closeInline(u, delimiter) ==
    IF u.returned THEN u.e ELSE encodeElementHeader(u.e, delimiter, <<>>, 0)

\* the end of a defined-length SQ or NA branch, c being [e, sube, returned]
closeChildren(c, tag, vr) ==
    IF c.returned THEN c.e ELSE writeMeasured(c.e, c.sube, tag, vr)

\* the end of the scalar branch, sc being [e, sube]
closeScalar(sc, tag, vr) ==
    writeMeasured(sc.e, sc.sube, tag, vr)

\* WriteElement after the VR has been settled
writeValue(e, elem, vr) ==
    IF elem.Tag = PixelData
    THEN writePixelData(IF Len(elem.Value) # 1
                        THEN EncSetErrorf(e, "PixelData element must have one value of type PixelDataInfo")
                        ELSE e,
                        elem, vr)
    ELSE IF vr \in {vrSQ, vrNA}
    THEN IF elem.UndefinedLength
         THEN closeInline(writeInline(encodeElementHeader(e, elem.Tag, vr, UndefinedLength),
                                      elem.Value, vr = vrSQ),
                          IF vr = vrSQ THEN SequenceDelimitationItem
                          ELSE ItemDelimitationItem)
         ELSE closeChildren(writeChildren(e, NewBytesEncoder(e.byteorder, e.implicit),
                                          elem.Value, vr = vrSQ),
                            elem.Tag, vr)
    ELSE IF elem.UndefinedLength
    THEN EncSetErrorf(e, "undefined-length element not supported")
    ELSE closeScalar(writeScalar(e, NewBytesEncoder(e.byteorder, e.implicit), elem, vr),
                     elem.Tag, vr)

\* the VR WriteElement writes: the element's, or the dictionary's, or UN
writtenVR(elem) ==
    IF elem.VR # <<>> THEN elem.VR
    ELSE IF Find(elem.Tag).ok THEN Find(elem.Tag).VR
    ELSE vrUN

\* the VR of the element and the VR of the dictionary are of different kinds
vrMismatch(elem) ==
    /\ elem.VR # <<>>
    /\ Find(elem.Tag).ok
    /\ Find(elem.Tag).VR # elem.VR
    /\ GetVRKind(elem.Tag, Find(elem.Tag).VR) # GetVRKind(elem.Tag, elem.VR)

\* WriteElement: the encoder after the call
WriteElement(e, elem) ==
    IF e.panic THEN e
    ELSE IF vrMismatch(elem) THEN EncSetErrorf(e, "VR value mismatch")
    ELSE writeValue(e, elem, writtenVR(elem))

\* ------------------------------------------------------------------------
\* The dataset driver, write path

\* writeRequiredMetaElement of WriteFileHeader
writeRequiredMetaElement(sub, metaElements, tag) ==
    IF FindElementByTag(metaElements, tag) # 0
    THEN WriteElement(sub, metaElements[FindElementByTag(metaElements, tag)])
    ELSE EncSetErrorf(sub, "not found in metaElements")

\* WriteElement(subEncoder, MustNewElement(...)), m being [elem, panic]
writeMust(sub, m) ==
    IF m.panic THEN [sub EXCEPT !.panic = TRUE] ELSE WriteElement(sub, m.elem)

\* writeOptionalMetaElement of WriteFileHeader
writeOptionalMetaElement(sub, metaElements, tag, defaultValue) ==
    IF sub.panic THEN sub
    ELSE IF FindElementByTag(metaElements, tag) # 0
    THEN WriteElement(sub, metaElements[FindElementByTag(metaElements, tag)])
    ELSE writeMust(sub, MustNewElement(tag, <<defaultValue>>))

\* a tagsUsed that forgets the elements written with a default
tagsUsedRequired ==
    {FileMetaInformationGroupLength, MediaStorageSOPClassUID,
     MediaStorageSOPInstanceUID, TransferSyntaxUID}

\* a tagsUsed that does not hold the group length
tagsUsedButLength ==
    {FileMetaInformationVersion, MediaStorageSOPClassUID, MediaStorageSOPInstanceUID,
     TransferSyntaxUID, ImplementationClassUID, ImplementationVersionName}

\* the tags WriteFileHeader marks in tagsUsed before its last loop
tagsUsed ==
    {FileMetaInformationGroupLength, FileMetaInformationVersion,
     MediaStorageSOPClassUID, MediaStorageSOPInstanceUID, TransferSyntaxUID,
     ImplementationClassUID, ImplementationVersionName}

RECURSIVE writeOtherMeta(_, _)
\* the last loop of WriteFileHeader: the group-2 elements not yet written
writeOtherMeta(sub, metaElements) ==
    IF metaElements = <<>> THEN sub
    ELSE writeOtherMeta(IF /\ Head(metaElements).Tag.Group = MetadataGroup
                           /\ Head(metaElements).Tag \notin tagsUsed
                        THEN WriteElement(sub, Head(metaElements))
                        ELSE sub,
                        Tail(metaElements))

\* the sub-encoder of WriteFileHeader after the meta elements are written
encodeMeta(metaElements) ==
    writeOtherMeta(
        writeOptionalMetaElement(
            writeOptionalMetaElement(
                writeRequiredMetaElement(
                    writeRequiredMetaElement(
                        writeRequiredMetaElement(
                            writeOptionalMetaElement(
                                NewBytesEncoder(LittleEndian, ExplicitVR),
                                metaElements, FileMetaInformationVersion,
                                BytesV(DefaultFileMetaInformationVersion)),
                            metaElements, MediaStorageSOPClassUID),
                        metaElements, MediaStorageSOPInstanceUID),
                    metaElements, TransferSyntaxUID),
                metaElements, ImplementationClassUID,
                StringV(GoDICOMImplementationClassUID)),
            metaElements, ImplementationVersionName,
            StringV(GoDICOMImplementationVersionName)),
        metaElements)

\* the end of WriteFileHeader: the preamble, the magic word, the group length
\* and the meta bytes, metaBytes being [e, v] of subEncoder.Bytes()
writePreamble(e, metaBytes) ==
    IF metaBytes.e.panic THEN [e EXCEPT !.panic = TRUE]
    ELSE thenWriteBytes(
             writeMust(WriteString(WriteZeros(e, 128), DICM),
                       MustNewElement(FileMetaInformationGroupLength,
                                      <<UInt32V(Len(metaBytes.v))>>)),
             metaBytes.v)

\* WriteFileHeader after the meta elements are written to subEncoder
writeFileHeaderBody(e, subEncoder) ==
    IF subEncoder.panic THEN [e EXCEPT !.panic = TRUE]
    ELSE IF subEncoder.err # Nil THEN EncSetError(e, subEncoder.err)
    ELSE writePreamble(e, Bytes(subEncoder))

\* WriteFileHeader: the encoder after the call; the deferred
\* PopTransferSyntax runs on every way out
WriteFileHeader(e, metaElements) ==
    EncPopTransferSyntax(
        writeFileHeaderBody(EncPushTransferSyntax(e, LittleEndian, ExplicitVR),
                            encodeMeta(metaElements)))

RECURSIVE SelectGroup(_, _)
\* the elements of a dataset that are (meta = TRUE) or are not
\* (meta = FALSE) in the metadata group, in order
SelectGroup(elems, meta) ==
    IF elems = <<>> THEN <<>>
    ELSE IF (Head(elems).Tag.Group = MetadataGroup) = meta
    THEN <<Head(elems)>> \o SelectGroup(Tail(elems), meta)
    ELSE SelectGroup(Tail(elems), meta)

RECURSIVE writeElements(_, _)
\* the loop of WriteDataSet over the elements outside the metadata group
writeElements(e, elems) ==
    IF elems = <<>> THEN e
    ELSE writeElements(WriteElement(e, Head(elems)), Tail(elems))

\* the result of WriteDataSet: [out, err, panic, e (the encoder as the call
\* leaves it)]
WriteResult(e, err, panic) ==
    [out |-> e.out, err |-> err, panic |-> panic, e |-> e]

\* WriteDataSet from PushTransferSyntax to PopTransferSyntax, which a panic
\* of WriteElement does not reach
writeBody(w) ==
    IF w.panic THEN WriteResult(w, Nil, TRUE)
    ELSE WriteResult(EncPopTransferSyntax(w), w.err, FALSE)

\* WriteDataSet after getTransferSyntax
writeAfterSyntax(h, ts, elems) ==
    IF ts.panic THEN WriteResult(h, Nil, TRUE)
    ELSE IF ts.err # Nil THEN WriteResult(h, ts.err, FALSE)
    ELSE writeBody(writeElements(EncPushTransferSyntax(h, ts.byteorder, ts.implicit),
                                 SelectGroup(elems, FALSE)))

\* WriteDataSet after WriteFileHeader
writeAfterHeader(h, elems) ==
    IF h.panic THEN WriteResult(h, Nil, TRUE)
    ELSE IF h.err # Nil THEN WriteResult(h, h.err, FALSE)
    ELSE writeAfterSyntax(h, getTransferSyntax(elems), elems)

\* WriteDataSet over a writer with room for `room` more bytes
WriteDataSet(room, elems) ==
    writeAfterHeader(WriteFileHeader(NewEncoder(room, NilByteOrder, UnknownVR),
                                     SelectGroup(elems, TRUE)),
                     elems)

\* ------------------------------------------------------------------------
\* Bounds of the state machines

\* the most body elements a caller puts into a dataset
MaxBody == 2

\* the bytes of the stream under the decoder of SpecDecoder
DataLen == 4

\* the deepest nesting of PushLimit in SpecDecoder
MaxWindows == 2

\* the most primitive calls made on the decoder of SpecDecoder
MaxCalls == 4

\* ------------------------------------------------------------------------
\* The datasets a caller builds

\* the meta elements a caller supplies for a transfer syntax
MetaOf(uid) ==
    <<Element(MediaStorageSOPClassUID, vrUI, FALSE, <<StringV(VerificationSOPClass)>>),
      Element(MediaStorageSOPInstanceUID, vrUI, FALSE, <<StringV(<<49, 46, 50>>)>>),
      Element(TransferSyntaxUID, vrUI, FALSE, <<StringV(uid)>>)>>

\* the transfer syntaxes of the datasets
Syntaxes ==
    {ImplicitVRLittleEndian, ExplicitVRLittleEndian, ExplicitVRBigEndian}

\* the body elements a caller chooses from, in ascending tag order
Pool ==
    <<Element(ReferencedStudySequence, vrSQ, FALSE,
              <<ElementV(Element(Item, vrNA, FALSE,
                  <<ElementV(Element(StudyDate, vrDA, FALSE,
                                     <<StringV(<<50, 48, 50, 48, 48, 49, 48, 49>>)>>))>>))>>),
      Element(PatientName, vrPN, FALSE, <<StringV(<<65, 66>>)>>),
      Element(PatientComments, vrLT, FALSE, <<StringV(<<97, 98, 99>>)>>),
      Element(StudyInstanceUID, vrUI, FALSE, <<StringV(<<49, 46, 51>>)>>),
      Element(SamplesPerPixel, vrUS, FALSE, <<UInt16V(3)>>),
      Element(FrameIncrementPointer, vrAT, FALSE, <<TagV(PatientName)>>),
      Element(PixelData, vrOW, TRUE,
              <<PixelDataInfoV(PixelDataInfo(<<0>>, <<<<1, 2, 3, 4>>>>))>>)>>

\* the index in Pool of the element with the tag, or 0
PoolIndex(tag) ==
    IF \E i \in 1..Len(Pool) : Pool[i].Tag = tag
    THEN CHOOSE i \in 1..Len(Pool) : Pool[i].Tag = tag
    ELSE 0

\* the ReadOptions a caller reads with
OptionSet ==
    {NoOptions,
     ReadOptions(TRUE, <<>>, <<>>),
     ReadOptions(FALSE, <<<<StudyInstanceUID>>>>, <<>>),
     ReadOptions(FALSE, <<<<PatientName, SamplesPerPixel>>>>, <<>>),
     ReadOptions(FALSE, <<>>, <<StudyInstanceUID>>),
     ReadOptions(TRUE, <<<<StudyInstanceUID>>>>, <<StudyInstanceUID>>)}

\* ------------------------------------------------------------------------
\* What the environment does to a file between the write and the read

\* the first index at which pattern occurs in s, or 0
IndexOf(s, pattern) ==
    IF \E i \in 1..(Len(s) - Len(pattern) + 1) : SubSeq(s, i, i + Len(pattern) - 1) = pattern
    THEN CHOOSE i \in 1..(Len(s) - Len(pattern) + 1) :
            /\ SubSeq(s, i, i + Len(pattern) - 1) = pattern
            /\ \A j \in 1..(i - 1) : SubSeq(s, j, j + Len(pattern) - 1) # pattern
    ELSE 0

\* s with the byte at index i replaced by b
Patch(s, i, b) ==
    [s EXCEPT ![i] = b]

\* the kinds of damage
Damages ==
    {"magic", "short", "first", "grouplength", "syntax", "tail", "stray"}

\* the file after the damage: the magic word spoilt, the file cut inside the
\* preamble, the first meta element retagged (0002,0001), the group length
\* retyped US, the TransferSyntaxUID element retagged (0002,0011), the last two
\* bytes of the file cut off, a stray byte after the last element
Damaged(s, kind) ==
    IF kind = "magic" THEN Patch(s, 129, 0)
    ELSE IF kind = "short" THEN SubSeq(s, 1, 100)
    ELSE IF kind = "first" THEN Patch(s, 135, 1)
    ELSE IF kind = "grouplength" THEN Patch(s, 138, 83)
    ELSE IF kind = "syntax"
    THEN Patch(s, IndexOf(s, <<2, 0, 16, 0, 85, 73>>) + 2, 17)
    ELSE IF kind = "stray" THEN Append(s, 8)
    ELSE SubSeq(s, 1, Len(s) - 2)

\* ------------------------------------------------------------------------
\* The state machines.  Spec is a caller that builds a dataset, writes it with
\* WriteDataSet, and reads the file (as written, or damaged on the way) back,
\* with ReadDataSet or step by step with ParseFileHeader and ReadElement.
\* SpecDecoder is a caller of the Decoder's primitives on a short stream.

VARIABLES
    ds,         \* DataSet.Elements of the dataset the caller builds
    phase,      \* "build", "written", "damaged"; "decoder" in SpecDecoder
    out,        \* the bytes of the file
    wres,       \* what WriteDataSet returned
    file,       \* what ReadDataSet returned
    dec,        \* the Decoder the caller drives
    last,       \* the last call on dec: the decoder before it, and its result
    windows,    \* the PushLimit calls not yet popped: where, how much, verdict
    calls,      \* the number of calls made on dec in SpecDecoder
    recorded    \* the first error recorded on dec in SpecDecoder

vars == <<ds, phase, out, wres, file, dec, last, windows, calls, recorded>>

\* no WriteDataSet yet
NoWrite ==
    [err |-> Nil, panic |-> FALSE, syntaxes |-> 0, header |-> 0, done |-> FALSE]

\* no ReadDataSet yet
NoFile ==
    [Elements |-> <<>>, isNil |-> TRUE, err |-> Nil, derr |-> Nil, panic |-> FALSE,
     pos |-> 0, limits |-> 0, syntaxes |-> 0, options |-> NoOptions, done |-> FALSE]

\* no decoder yet
NoDecoder ==
    NewBytesDecoder(<<>>, LittleEndian, ExplicitVR)

\* a window of PushLimit(n) at position p under the limit `limit`
Window(p, n, limit, rejected) ==
    [p |-> p, n |-> n, limit |-> limit, rejected |-> rejected, clean |-> TRUE]

NoWindow ==
    Window(0, 0, 0, FALSE)

\* the record of a call: the decoder d0 it was made on, the decoder d1 it
\* left, the value it returned, and what ReadElement returned
Call(op, arg, d0, d1, v, is) ==
    [op |-> op, arg |-> arg, pos |-> d0.pos, err |-> d0.err, limit |-> d0.limit,
     limits |-> Len(d0.stateStack), syntaxes |-> Len(d0.oldTransferSyntaxes),
     limitsAfter |-> Len(d1.stateStack),
     syntaxesAfter |-> Len(d1.oldTransferSyntaxes),
     returned |-> ~d1.panic, v |-> v, is |-> is]

NoCall ==
    Call("", NoWindow, NoDecoder, NoDecoder, <<>>, IsNil)

Init ==
    /\ ds \in {MetaOf(uid) : uid \in Syntaxes}
              \cup {<<MetaOf(ExplicitVRLittleEndian)[1], MetaOf(ExplicitVRLittleEndian)[3]>>}
    /\ phase = "build"
    /\ out = <<>>
    /\ wres = NoWrite
    /\ file = NoFile
    /\ dec = NoDecoder
    /\ last = NoCall
    /\ windows = <<>>
    /\ calls = 0
    /\ recorded = Nil

\* the caller appends an element to the dataset, keeping the tags ascending
AddElement(i) ==
    /\ phase = "build"
    /\ Len(SelectGroup(ds, FALSE)) < MaxBody
    /\ i > PoolIndex(Last(ds).Tag)
    /\ ds' = Append(ds, Pool[i])
    /\ UNCHANGED <<phase, out, wres, file, dec, last, windows, calls, recorded>>

\* the depth of the encoder's transfer-syntax stack when WriteFileHeader
\* leaves it
headerSyntaxes(elems) ==
    Len(WriteFileHeader(NewEncoder(MaxInt64, NilByteOrder, UnknownVR),
                        SelectGroup(elems, TRUE)).oldTransferSyntaxes)

\* WriteDataSet(out, ds)
Write ==
    /\ phase = "build"
    /\ \E w \in {WriteDataSet(MaxInt64, ds)} :
          /\ out' = w.out
          /\ wres' = [err |-> w.err, panic |-> w.panic,
                      syntaxes |-> Len(w.e.oldTransferSyntaxes),
                      header |-> headerSyntaxes(ds), done |-> TRUE]
    /\ phase' = "written"
    /\ UNCHANGED <<ds, file, dec, last, windows, calls, recorded>>

\* a file that was written is there to be read
Readable ==
    /\ phase \in {"written", "damaged"}
    /\ wres.err = Nil
    /\ ~wres.panic
    /\ ~file.done
    /\ last = NoCall

\* the file is damaged before anything reads it
Damage(kind) ==
    /\ Readable
    /\ phase = "written"
    /\ out' = Damaged(out, kind)
    /\ phase' = "damaged"
    /\ UNCHANGED <<ds, wres, file, dec, last, windows, calls, recorded>>

\* ReadDataSet(in, options)
Read(options) ==
    /\ Readable
    /\ \E r \in {ReadDataSet(out, options)} :
          file' = [Elements |-> r.Elements, isNil |-> r.isNil, err |-> r.err,
                   derr |-> r.d.err, panic |-> r.panic, pos |-> r.d.pos,
                   limits |-> Len(r.d.stateStack),
                   syntaxes |-> Len(r.d.oldTransferSyntaxes),
                   options |-> options, done |-> TRUE]
    /\ UNCHANGED <<ds, phase, out, wres, dec, last, windows, calls, recorded>>

\* the decoder on the body after ParseFileHeader returned h: the transfer
\* syntax of the body is pushed as ReadDataSet pushes it, when there is one
bodyDecoder(h, ts) ==
    IF h.d.panic \/ h.d.err # Nil \/ ts.panic \/ ts.err # Nil
    THEN h.d
    ELSE PushTransferSyntax(h.d, ts.byteorder, ts.implicit)

\* the caller opens a decoder on the file and calls ParseFileHeader
ParseHeader ==
    /\ Readable
    /\ \E h \in {ParseFileHeader(NewBytesDecoder(out, LittleEndian, ExplicitVR))} :
          /\ last' = Call("ParseFileHeader", NoWindow,
                          NewBytesDecoder(out, LittleEndian, ExplicitVR), h.d, <<>>,
                          IF h.isNil THEN IsNil ELSE IsElem)
          /\ dec' = bodyDecoder(h, getTransferSyntax(h.elems))
    /\ UNCHANGED <<ds, phase, out, wres, file, windows, calls, recorded>>

\* the caller calls ReadElement on the body
ReadNext(options) ==
    /\ last.op \in {"ParseFileHeader", "ReadElement"}
    /\ last.is # IsEndOfData
    /\ dec.oldTransferSyntaxes # <<>>
    /\ ~dec.panic
    /\ ~EOF(dec)
    /\ \E r \in {ReadElement(dec, options)} :
          /\ last' = Call("ReadElement", NoWindow, dec, r.d, <<>>, r.is)
          /\ dec' = r.d
    /\ UNCHANGED <<ds, phase, out, wres, file, windows, calls, recorded>>

Next ==
    \/ \E i \in 1..Len(Pool) : AddElement(i)
    \/ Write
    \/ \E kind \in Damages : Damage(kind)
    \/ \E options \in OptionSet : Read(options)
    \/ ParseHeader
    \/ \E options \in OptionSet : ReadNext(options)

Spec == Init /\ [][Next]_vars

\* ------------------------------------------------------------------------
\* SpecDecoder: the primitives of the Decoder, called in any order

\* the stream under the decoder: DataLen bytes, none of them zero
Stream ==
    [i \in 1..DataLen |-> i]

\* the lengths a caller asks for; DataLen + 1 is more than the stream holds
Lengths ==
    {0, 1, 2, DataLen + 1}

\* the typed reads, by name
TypedReads ==
    {"ReadByte", "ReadUInt16", "ReadUInt32", "ReadInt16", "ReadInt32",
     "ReadFloat32", "ReadFloat64"}

\* d.ReadXxx() of the typed read named op: [d, v]
typedRead(d, op) ==
    IF op = "ReadByte" THEN ReadByte(d)
    ELSE IF op = "ReadUInt16" THEN ReadUInt16(d)
    ELSE IF op = "ReadUInt32" THEN ReadUInt32(d)
    ELSE IF op = "ReadInt16" THEN ReadInt16(d)
    ELSE IF op = "ReadInt32" THEN ReadInt32(d)
    ELSE IF op = "ReadFloat32" THEN ReadFloat32(d)
    ELSE ReadFloat64(d)

\* the lengths a caller pushes a window of: those, and the largest int64
PushLengths ==
    Lengths \cup {MaxInt64}

\* pos + n is beyond the int64 range
overflows(d, n) ==
    n > MaxInt64 - d.pos

\* the windows open, each marked when a window pushed inside it overflowed
marked(ws, overflowed) ==
    [i \in 1..Len(ws) |-> [ws[i] EXCEPT !.clean = @ /\ ~overflowed]]

InitDecoder ==
    /\ ds = <<>>
    /\ phase = "decoder"
    /\ out = Stream
    /\ wres = NoWrite
    /\ file = NoFile
    /\ dec \in {NewBytesDecoder(Stream, byteorder, ExplicitVR) :
                    byteorder \in {LittleEndian, BigEndian}}
    /\ last = NoCall
    /\ windows = <<>>
    /\ calls = 0
    /\ recorded = Nil

\* a call on the decoder is counted
Called ==
    /\ phase \in {"decoder", "overflowed"}
    /\ ~dec.panic
    /\ UNCHANGED <<ds, out, wres, file>>

\* a call that the caller can repeat without end is counted; a PopLimit is
\* not, there is one for each PushLimit at most
Counted ==
    /\ Called
    /\ calls < MaxCalls
    /\ calls' = calls + 1

\* the error a call records: the one it left in a decoder that had none.
\* recorded keeps the first error recorded since the decoder was made
Recorded(err0, err1) ==
    recorded' = IF recorded = Nil /\ err0 = Nil THEN err1 ELSE recorded

\* d.PushLimit(n)
DPushLimit(n) ==
    /\ Counted
    /\ Recorded(dec.err, Last(PushLimit(dec, n).stateStack).err)
    /\ Len(dec.stateStack) < MaxWindows
    /\ dec' = PushLimit(dec, n)
    /\ phase' = IF overflows(dec, n) THEN "overflowed" ELSE phase
    /\ windows' = marked(Append(windows, Window(dec.pos, n, dec.limit,
                                                Add64(dec.pos, n) > dec.limit)),
                         overflows(dec, n))
    /\ last' = Call("PushLimit",
                    Window(dec.pos, n, dec.limit, Add64(dec.pos, n) > dec.limit),
                    dec, dec', <<>>, IsNil)

\* d.PopLimit() of the innermost window
DPopLimit ==
    /\ Called
    /\ dec.stateStack # <<>>
    /\ dec' = PopLimit(dec)
    /\ Recorded(dec.err, IF dec.pos < dec.limit
                         THEN Skip(dec, Sub64(dec.limit, dec.pos)).err
                         ELSE Nil)
    /\ windows' = Front(windows)
    /\ last' = Call("PopLimit", Last(windows), dec, dec', <<>>, IsNil)
    /\ UNCHANGED <<phase, calls>>

\* d.ReadByte(), d.ReadUInt16(), ...
DRead(op) ==
    /\ Counted
    /\ \E r \in {typedRead(dec, op)} :
          /\ dec' = r.d
          /\ Recorded(dec.err, r.d.err)
          /\ last' = Call(op, NoWindow, dec, r.d, r.v, IsNil)
    /\ UNCHANGED <<phase, windows>>

\* d.ReadBytes(n)
DReadBytes(n) ==
    /\ Counted
    /\ \E r \in {ReadBytes(dec, n)} :
          /\ dec' = r.d
          /\ Recorded(dec.err, r.d.err)
          /\ last' = Call("ReadBytes", Window(dec.pos, n, dec.limit, FALSE), dec, r.d,
                          r.v, IsNil)
    /\ UNCHANGED <<phase, windows>>

\* d.ReadString(n)
DReadString(n) ==
    /\ Counted
    /\ \E r \in {ReadString(dec, n)} :
          /\ dec' = r.d
          /\ Recorded(dec.err, r.d.err)
          /\ last' = Call("ReadString", Window(dec.pos, n, dec.limit, FALSE), dec, r.d,
                          r.v, IsNil)
    /\ UNCHANGED <<phase, windows>>

\* d.Skip(n)
DSkip(n) ==
    /\ Counted
    /\ dec' = Skip(dec, n)
    /\ Recorded(dec.err, Skip(dec, n).err)
    /\ last' = Call("Skip", Window(dec.pos, n, dec.limit, FALSE), dec, dec', <<>>, IsNil)
    /\ UNCHANGED <<phase, windows>>

\* d.SetError(err) by the caller, as the parser does on a malformed element
DSetError ==
    /\ Counted
    /\ dec' = SetError(dec, "caller")
    /\ Recorded(dec.err, SetError(dec, "caller").err)
    /\ last' = Call("SetError", NoWindow, dec, dec', <<>>, IsNil)
    /\ UNCHANGED <<phase, windows>>

NextDecoder ==
    \/ \E n \in PushLengths : DPushLimit(n)
    \/ DPopLimit
    \/ \E op \in TypedReads : DRead(op)
    \/ \E n \in Lengths : DReadBytes(n)
    \/ \E n \in Lengths : DReadString(n)
    \/ \E n \in Lengths : DSkip(n)
    \/ DSetError

SpecDecoder == InitDecoder /\ [][NextDecoder]_vars

\* ------------------------------------------------------------------------
\* What WriteDataSet writes, element by element, and what a read of it is
\* compared with

\* the element WriteFileHeader writes for a tag: the one of the list, or the
\* default
headerElement(metaElements, tag, defaultValue) ==
    IF FindElementByTag(metaElements, tag) # 0
    THEN metaElements[FindElementByTag(metaElements, tag)]
    ELSE MustNewElement(tag, <<defaultValue>>).elem

RECURSIVE otherMeta(_)
\* the elements the last loop of WriteFileHeader writes
otherMeta(metaElements) ==
    IF metaElements = <<>> THEN <<>>
    ELSE IF /\ Head(metaElements).Tag.Group = MetadataGroup
            /\ Head(metaElements).Tag \notin tagsUsed
    THEN <<Head(metaElements)>> \o otherMeta(Tail(metaElements))
    ELSE otherMeta(Tail(metaElements))

\* the elements of the header in file order: the group length, the six
\* elements WriteFileHeader places itself, the other meta elements
writtenMeta(metaElements) ==
    <<MustNewElement(FileMetaInformationGroupLength,
                     <<UInt32V(Len(encodeMeta(metaElements).out))>>).elem,
      headerElement(metaElements, FileMetaInformationVersion,
                    BytesV(DefaultFileMetaInformationVersion)),
      headerElement(metaElements, MediaStorageSOPClassUID, StringV(<<>>)),
      headerElement(metaElements, MediaStorageSOPInstanceUID, StringV(<<>>)),
      headerElement(metaElements, TransferSyntaxUID, StringV(<<>>)),
      headerElement(metaElements, ImplementationClassUID,
                    StringV(GoDICOMImplementationClassUID)),
      headerElement(metaElements, ImplementationVersionName,
                    StringV(GoDICOMImplementationVersionName))>>
    \o otherMeta(metaElements)

\* the elements of the file WriteDataSet writes for a dataset, in file order
WrittenElements(elems) ==
    writtenMeta(SelectGroup(elems, TRUE)) \o SelectGroup(elems, FALSE)

RECURSIVE SameElement(_, _)
\* the element r read back equals the element w written in tag, VR and
\* values, children included; UndefinedLength is not compared
SameElement(w, r) ==
    /\ r.Tag = w.Tag
    /\ r.VR = writtenVR(w)
    /\ Len(r.Value) = Len(w.Value)
    /\ \A i \in 1..Len(w.Value) :
          IF w.Value[i].k = "*Element"
          THEN r.Value[i].k = "*Element" /\ SameElement(w.Value[i].v, r.Value[i].v)
          ELSE r.Value[i] = w.Value[i]

\* the elements read back equal the elements written, one by one
SameElements(ws, rs) ==
    /\ Len(rs) = Len(ws)
    /\ \A i \in 1..Len(ws) : SameElement(ws[i], rs[i])

\* the tags of a list of elements, in order
TagsOf(elems) ==
    [i \in 1..Len(elems) |-> elems[i].Tag]

\* ReadDataSet has returned from a read, with the options, of the file as
\* WriteDataSet wrote it
ReadBack(options) ==
    /\ file.done
    /\ phase = "written"
    /\ file.options = options

\* ------------------------------------------------------------------------
\* C1..C6: the dataset driver

\* C1 (as the claim states it): a dataset that WriteDataSet serialised without
\* error under one of the three standard transfer syntaxes is read back by
\* ReadDataSet without error, and the elements read are the elements written
\* (the meta elements of the header, then the body) in tag, VR and values.
C1_RoundTrip ==
    ReadBack(NoOptions) =>
        /\ ~file.panic
        /\ ~file.isNil
        /\ file.err = Nil
        /\ SameElements(WrittenElements(ds), file.Elements)

\* C1, what does hold: the read returns no error and the elements written,
\* tag by tag and in order
C1_SameTags ==
    ReadBack(NoOptions) =>
        /\ ~file.panic
        /\ ~file.isNil
        /\ file.err = Nil
        /\ TagsOf(file.Elements) = TagsOf(WrittenElements(ds))

\* C1: a file with body elements has been written and read back, and the
\* FileMetaInformationVersion read is not the one written
C1_Witness ==
    /\ ReadBack(NoOptions)
    /\ Len(SelectGroup(ds, FALSE)) = MaxBody
    /\ file.err = Nil
    /\ ~SameElement(WrittenElements(ds)[2], file.Elements[2])

RECURSIVE WithTagIn(_, _)
\* the elements of a list whose tag is in the list of tags, in order
WithTagIn(elems, tags) ==
    IF elems = <<>> THEN <<>>
    ELSE IF tagInList(Head(elems).Tag, tags)
    THEN <<Head(elems)>> \o WithTagIn(Tail(elems), tags)
    ELSE WithTagIn(Tail(elems), tags)

RECURSIVE Below(_, _)
\* the elements of a list whose tag is below the tag in (group, element) order
Below(elems, tag) ==
    IF elems = <<>> THEN <<>>
    ELSE IF Compare(Head(elems).Tag, tag) < 0
    THEN <<Head(elems)>> \o Below(Tail(elems), tag)
    ELSE Below(Tail(elems), tag)

RECURSIVE Before(_, _)
\* the elements of a list that precede the first one with the tag
Before(elems, tag) ==
    IF elems = <<>> \/ Head(elems).Tag = tag THEN <<>>
    ELSE <<Head(elems)>> \o Before(Tail(elems), tag)

\* the elements of the file: what a read without a whitelist returns
FileElements(options) ==
    ReadDataSet(out, [options EXCEPT !.ReturnTags = <<>>]).Elements

\* the two whitelists read with
OnlyStudyInstanceUID == ReadOptions(FALSE, <<<<StudyInstanceUID>>>>, <<>>)

\* C2 (as the claim states it): with ReturnTags = L non-nil, ReadDataSet
\* returns exactly the elements of the file whose tag is in L, meta elements
\* included in the filtering; with L = [StudyInstanceUID] and a file that has
\* one StudyInstanceUID, exactly one element.
C2_ReturnTags ==
    file.done /\ phase = "written" /\ file.options.ReturnTags # <<>> =>
        /\ ~file.isNil
        /\ file.Elements = WithTagIn(FileElements(file.options),
                                     file.options.ReturnTags[1])
        /\ (/\ file.options = OnlyStudyInstanceUID
            /\ FindElementByTag(ds, StudyInstanceUID) # 0
            => Len(file.Elements) = 1)

\* C2, what does hold: the whitelist filters the body; the meta elements are
\* all returned
C2_BodyFiltered ==
    file.done /\ phase = "written" /\ file.options.ReturnTags # <<>> =>
        /\ ~file.isNil
        /\ SelectGroup(file.Elements, FALSE)
              = WithTagIn(SelectGroup(FileElements(file.options), FALSE),
                          file.options.ReturnTags[1])
        /\ SelectGroup(file.Elements, TRUE)
              = SelectGroup(FileElements(file.options), TRUE)

\* C2: a file with one StudyInstanceUID was read with ReturnTags =
\* [StudyInstanceUID], and more than one element came back
C2_Witness ==
    /\ ReadBack(OnlyStudyInstanceUID)
    /\ FindElementByTag(ds, StudyInstanceUID) # 0
    /\ FindElementByTag(file.Elements, StudyInstanceUID) # 0
    /\ Len(file.Elements) > 1

\* the options of a read that stops at StudyInstanceUID
StopAtStudyInstanceUID == ReadOptions(FALSE, <<>>, <<StudyInstanceUID>>)

\* C3 (as the claim states it): with StopAtTag = T and a body in ascending
\* tag order, ReadDataSet retains every top-level body element below T in
\* (group, element) order and none equal to or above T.
C3_StopAtTag ==
    ReadBack(StopAtStudyInstanceUID) =>
        /\ ~file.isNil
        /\ TagsOf(SelectGroup(file.Elements, FALSE))
              = TagsOf(Below(SelectGroup(ds, FALSE), StudyInstanceUID))

\* C3, what does hold: the body elements retained are those that precede the
\* first element whose group and whose element number are both at least T's
C3_StopsAtBoth ==
    ReadBack(StopAtStudyInstanceUID) =>
        /\ ~file.isNil
        /\ \A i \in 1..Len(file.Elements) :
              ~stopAtTag(file.Elements[i].Tag, file.options)
        /\ \A i \in 1..Len(ds) :
              \/ FindElementByTag(file.Elements, ds[i].Tag) # 0
              \/ \E j \in 1..i : stopAtTag(ds[j].Tag, file.options)

\* C3: a body in ascending order was read with StopAtTag = StudyInstanceUID
\* (0020,000D), and SamplesPerPixel (0028,0002) was retained
C3_Witness ==
    /\ ReadBack(StopAtStudyInstanceUID)
    /\ FindElementByTag(file.Elements, SamplesPerPixel) # 0

\* the options of a read that drops the pixel data
DropOnly == ReadOptions(TRUE, <<>>, <<>>)

\* the offset in the file just after the tag of the first top-level
\* PixelData: the length of the file of the elements before it, and the tag
AfterPixelDataTag ==
    Len(WriteDataSet(MaxInt64, Before(ds, PixelData)).out) + 4

\* C4: with DropPixelData, ReadDataSet returns a dataset with no top-level
\* PixelData: exactly the meta elements and the body elements that precede
\* the first top-level PixelData of the file; the read stops at that tag
\* without an error, and nothing after the tag is read.
C4_DropPixelData ==
    ReadBack(DropOnly) =>
        /\ ~file.panic
        /\ ~file.isNil
        /\ file.err = Nil
        /\ FindElementByTag(file.Elements, PixelData) = 0
        /\ file.Elements = Before(ReadDataSet(out, NoOptions).Elements, PixelData)
        /\ (FindElementByTag(ds, PixelData) # 0 =>
               /\ file.pos = AfterPixelDataTag
               /\ file.pos < Len(out))

\* C4: a file with a body element and then PixelData was read with
\* DropPixelData, and the read stopped before the end of the file
C4_Witness ==
    /\ ReadBack(DropOnly)
    /\ Len(SelectGroup(ds, FALSE)) = 2
    /\ Last(ds).Tag = PixelData
    /\ Len(SelectGroup(file.Elements, FALSE)) = 1
    /\ file.pos = AfterPixelDataTag
    /\ file.pos < Len(out)

\* whether the header of the file fails: ParseFileHeader records an error,
\* or the meta elements give no transfer syntax
headerFails(h) ==
    \/ h.d.err # Nil
    \/ getTransferSyntax(h.elems).err # Nil

\* the header of the file in out fails
HeaderFails ==
    headerFails(ParseFileHeader(NewBytesDecoder(out, LittleEndian, ExplicitVR)))

C5_WitnessNil ==
    /\ file.done
    /\ file.err # Nil
    /\ file.isNil

MalformedHeader(s) ==
    \/ Len(s) < 132
    \/ SubSeq(s, 129, 132) # DICM
    \/ Len(s) < 140
    \/ SubSeq(s, 133, 140) # <<2, 0, 0, 0, 85, 76, 4, 0>>
    \/ IndexOf(s, <<2, 0, 16, 0, 85, 73>>) = 0

\* C6: ReadDataSet returns a non-nil error for every malformed header: no
\* DICM at bytes 128..132 (a file under 132 bytes included), a first meta
\* element that is not FileMetaInformationGroupLength holding one uint32, no
\* TransferSyntaxUID among the meta elements.
C6_MalformedHeader ==
    file.done /\ MalformedHeader(out) =>
        /\ ~file.panic
        /\ file.err # Nil

\* C6: a file whose meta elements hold no TransferSyntaxUID, and nothing else
\* wrong, was read
C6_Witness ==
    /\ file.done
    /\ Len(out) >= 140
    /\ SubSeq(out, 129, 132) = DICM
    /\ SubSeq(out, 133, 140) = <<2, 0, 0, 0, 85, 76, 4, 0>>
    /\ IndexOf(out, <<2, 0, 16, 0, 85, 73>>) = 0
    /\ file.err = MkError("element not found", -1)

\* ------------------------------------------------------------------------
\* C7..C9: the decoder, its error and its limit windows

\* the reads of a Decoder, by name
ReadOps ==
    TypedReads \cup {"ReadBytes", "ReadString", "Skip"}

\* the bytes the last read asked for
sizeOfLast ==
    IF last.op = "ReadByte" THEN 1
    ELSE IF last.op \in {"ReadUInt16", "ReadInt16"} THEN 2
    ELSE IF last.op \in {"ReadUInt32", "ReadInt32", "ReadFloat32"} THEN 4
    ELSE IF last.op = "ReadFloat64" THEN 8
    ELSE last.arg.n

\* the zero value of what the last read returns
zeroOfLast ==
    IF last.op = "ReadFloat64" THEN <<0, 0>>
    ELSE IF last.op \in TypedReads THEN 0
    ELSE <<>>

\* the bytes the last read asked for were there: inside the window and in
\* the stream
lastFits ==
    /\ sizeOfLast <= Sub64(last.limit, last.pos)
    /\ sizeOfLast <= Len(Stream) - last.pos

\* the last call was a read on a decoder whose error was set, and it returned
ReadAfterError ==
    /\ last.op \in ReadOps
    /\ last.err # Nil
    /\ last.returned

\* C7 (as the claim states it): once the error of a Decoder is set, every read
\* (typed reads, ReadBytes, ReadString, Skip) is a no-op: it returns the zero
\* value and leaves the position unchanged.
C7_ReadsAreNoOps ==
    ReadAfterError =>
        /\ last.v = zeroOfLast
        /\ dec.pos = last.pos

\* C7 (amended): once the error of a Decoder is set, no read replaces it; the
\* reads go on consuming: a read whose bytes are there advances the
\* position by its size and returns them (a typed read of the bytes 1..DataLen
\* returns a value that is not zero), and a typed read whose bytes are not
\* there returns zero.
C7_ErrorKept ==
    ReadAfterError =>
        /\ dec.err = last.err
        /\ dec.pos >= last.pos
        /\ lastFits => dec.pos = last.pos + sizeOfLast
        /\ lastFits /\ last.op \in {"ReadBytes", "ReadString"} =>
              last.v = SubSeq(Stream, last.pos + 1, last.pos + sizeOfLast)
        /\ lastFits /\ last.op = "ReadByte" => last.v = Stream[last.pos + 1]
        /\ lastFits /\ last.op \in TypedReads => last.v # zeroOfLast
        /\ ~lastFits /\ last.op \in TypedReads => last.v = zeroOfLast

\* C7: a ReadUInt16 on a decoder whose error was set returned two bytes of
\* the stream and advanced the position
C7_Witness ==
    /\ last.op = "ReadUInt16"
    /\ last.err # Nil
    /\ dec.err = last.err
    /\ dec.pos = last.pos + 2
    /\ last.v # 0

\* the position is inside the active window, the active window inside every
\* saved one, and EOF() is true at the end of the window
Nested(d) ==
    /\ d.pos <= d.limit
    /\ \A i \in 1..Len(d.stateStack) : d.limit <= d.stateStack[i].limit
    /\ d.pos = d.limit => EOF(d)

\* what the last call left: a PushLimit that was rejected recorded an error
\* (PopLimit restores it) and installed a window ending at the position; a
\* read did not pass the limit that was active
lastKeepsWindow ==
    /\ last.op = "PushLimit" /\ last.arg.rejected =>
          /\ dec.limit = last.pos
          /\ dec.pos = last.pos
          /\ Last(dec.stateStack).err # Nil
    /\ last.op \in ReadOps => dec.pos <= last.limit

\* C8 (as the claim states it): after any sequence of PushLimit(n) with
\* n >= 0, PopLimit, reads and skips: position <= active limit <= every saved
\* limit; a PushLimit beyond the enclosing limit records an error and installs
\* a window ending at the position; no read passes the active limit; EOF() is
\* true when the position is the active limit.
C8_WindowsNested ==
    phase \in {"decoder", "overflowed"} =>
        /\ Nested(dec)
        /\ lastKeepsWindow

\* C8, what does hold: the same, as long as no PushLimit(n) was called with
\* n beyond MaxInt64 - position
C8_NestedWithoutOverflow ==
    phase = "decoder" =>
        /\ Nested(dec)
        /\ lastKeepsWindow

\* C8: inside a window, after a PushLimit(MaxInt64) at a position above 0, a
\* read has passed the end of the enclosing window
C8_Witness ==
    /\ phase = "overflowed"
    /\ last.op \in ReadOps
    /\ Len(dec.stateStack) = 2
    /\ dec.pos > Last(dec.stateStack).limit

\* the stream holds the bytes up to the end of the window
holdsWindow(w) ==
    \/ w.rejected
    \/ w.n <= Len(Stream) - w.p

\* the end of a window: p + n, or p when the push was rejected
endOf(w) ==
    IF w.rejected THEN w.p ELSE w.p + w.n

\* C9 (as the claim states it): for a PushLimit(n) at position p and its
\* matching PopLimit, whatever happened in between: after PopLimit the
\* position is the end of the window (p + n, or p when the push was
\* rejected), if the stream holds that many bytes, and the active limit is
\* the one that was active before the push.
C9_PopLimit ==
    last.op = "PopLimit" /\ holdsWindow(last.arg) =>
        /\ dec.pos = endOf(last.arg)
        /\ dec.limit = last.arg.limit

\* C9, what does hold: the same for a window inside which no PushLimit(n)
\* was called with n beyond MaxInt64 - position
C9_PopCleanWindow ==
    last.op = "PopLimit" /\ holdsWindow(last.arg) /\ last.arg.clean =>
        /\ dec.pos = endOf(last.arg)
        /\ dec.limit = last.arg.limit

\* C9: the PopLimit of a window of two bytes left the position beyond its
\* end
C9_Witness ==
    /\ last.op = "PopLimit"
    /\ ~last.arg.rejected
    /\ last.arg.n <= 2
    /\ dec.pos > last.arg.p + last.arg.n

\* C9: a PopLimit after a read that failed inside the window skipped to the
\* end of the window
C9_WitnessSkip ==
    /\ last.op = "PopLimit"
    /\ last.arg.clean
    /\ ~last.arg.rejected
    /\ last.err # Nil
    /\ last.pos < endOf(last.arg)
    /\ dec.pos = endOf(last.arg)

\* ------------------------------------------------------------------------
\* C10: the scopes

\* C10: scopes are balanced on every way out: when ParseFileHeader,
\* ReadElement or ReadDataSet returns, with an error recorded or without, the
\* limit stack and the transfer-syntax stack of the decoder have the depth
\* they had on entry; so has the transfer-syntax stack of the encoder after
\* WriteFileHeader and after WriteDataSet.
C10_ScopesBalanced ==
    /\ last.op \in {"ParseFileHeader", "ReadElement"} /\ last.returned =>
          /\ last.limitsAfter = last.limits
          /\ last.syntaxesAfter = last.syntaxes
    /\ file.done /\ ~file.panic =>
          /\ file.limits = 0
          /\ file.syntaxes = 0
    /\ wres.done /\ ~wres.panic =>
          /\ wres.header = 0
          /\ wres.syntaxes = 0

\* C10: ReadElement returned from a file cut short, with an error recorded
\* inside its window and the stacks as deep as on entry
C10_Witness ==
    /\ phase = "damaged"
    /\ last.op = "ReadElement"
    /\ last.returned
    /\ last.err = Nil
    /\ dec.err # Nil
    /\ last.syntaxes = 1
    /\ last.syntaxesAfter = 1
    /\ last.limitsAfter = 0

\* C10: WriteDataSet returned an error, its transfer syntax popped
C10_WitnessWrite ==
    /\ wres.done
    /\ wres.err # Nil
    /\ ~wres.panic
    /\ wres.syntaxes = 0

\* ------------------------------------------------------------------------
\* The functions of the codec, each called once on an input

\* the call of a function on an input: what it was given and what it returned
UnitCall(op, arg, v) ==
    [NoCall EXCEPT !.op = op, !.arg = arg, !.v = v]

InitUnits ==
    /\ ds = <<>>
    /\ phase = "units"
    /\ out = <<>>
    /\ wres = NoWrite
    /\ file = NoFile
    /\ dec = NoDecoder
    /\ last = NoCall
    /\ windows = <<>>
    /\ calls = 0
    /\ recorded = Nil

\* nothing has been called yet; the call made is the only change
Uncalled ==
    /\ phase = "units"
    /\ last = NoCall
    /\ UNCHANGED <<ds, phase, out, wres, file, dec, windows, calls, recorded>>

\* the UIDs given: those of the registry, and UIDs it does not know ("",
\* "1", "1.2", and a registered UID with ".9" after it)
Uids ==
    DOMAIN uidDict
      \cup {<<>>, <<49>>, <<49, 46, 50>>, ExplicitVRLittleEndian \o <<46, 57>>}

\* the UIDs the registry classifies as transfer syntaxes
TransferSyntaxUids ==
    {uid \in DOMAIN uidDict : uidDict[uid] = "TypeTransferSyntax"}

\* dicomio.CanonicalTransferSyntaxUID(uid)
UCanonicalTransferSyntaxUID(uid) ==
    /\ Uncalled
    /\ last' = UnitCall("CanonicalTransferSyntaxUID", uid, CanonicalTransferSyntaxUID(uid))

\* dicomio.ParseTransferSyntaxUID(uid)
UParseTransferSyntaxUID(uid) ==
    /\ Uncalled
    /\ last' = UnitCall("ParseTransferSyntaxUID", uid, ParseTransferSyntaxUID(uid))

\* the longest list of charset names given
MaxNames == 4

\* the charset names given: "ISO_IR 100", "ISO_IR 13", "ISO_IR 192", and "X",
\* which is not in the table
CharsetNames ==
    {<<73, 83, 79, 95, 73, 82, 32, 49, 48, 48>>,
     <<73, 83, 79, 95, 73, 82, 32, 49, 51>>,
     <<73, 83, 79, 95, 73, 82, 32, 49, 57, 50>>,
     <<88>>}

\* the lists of charset names given
CharsetLists ==
    UNION {[1..n -> CharsetNames] : n \in 0..MaxNames}

\* dicomio.ParseSpecificCharacterSet(encodingNames)
UParseSpecificCharacterSet(encodingNames) ==
    /\ Uncalled
    /\ last' = UnitCall("ParseSpecificCharacterSet", encodingNames,
                        ParseSpecificCharacterSet(encodingNames))

\* a call on a fresh decoder: everything but dec and last is left alone
Undecoded ==
    /\ phase = "units"
    /\ last = NoCall
    /\ UNCHANGED <<ds, phase, out, wres, file, windows, calls, recorded>>

\* the transfer syntaxes a stream is coded in: [byteorder, implicit]
Codings ==
    {[byteorder |-> LittleEndian, implicit |-> ImplicitVR],
     [byteorder |-> LittleEndian, implicit |-> ExplicitVR],
     [byteorder |-> BigEndian, implicit |-> ExplicitVR]}

\* the bytes of an element header in the coding s
headerBytes(s, tag, vr, vl) ==
    encodeElementHeader(NewBytesEncoder(s.byteorder, s.implicit), tag, vr, vl).out

\* the bytes of an element of defined length in the coding s
elementBytes(s, tag, vr, payload) ==
    headerBytes(s, tag, vr, Len(payload)) \o payload

\* the bytes of an element of undefined length in the coding s, with the
\* delimiter that closes it
undefinedBytes(s, tag, vr, payload, delimiter) ==
    headerBytes(s, tag, vr, UndefinedLength) \o payload
        \o headerBytes(s, delimiter, vrNA, 0)

\* PatientName "AB"
nameBytes(s) ==
    elementBytes(s, PatientName, vrPN, <<65, 66>>)

\* an item of defined length and one of undefined length, each of one element
itemBytes(s) ==
    elementBytes(s, Item, vrNA, nameBytes(s))

undefinedItemBytes(s) ==
    undefinedBytes(s, Item, vrNA, nameBytes(s), ItemDelimitationItem)

\* a private tag, which the dictionary does not hold
PrivateTag == Tag(9, 16)

\* the sequences given: of undefined and of defined length, with a child that
\* is not an item, one of VR UN, a sequence in an item of a sequence, and a
\* PixelData of VR SQ and of VR UN
SequenceStreams(s) ==
    {undefinedBytes(s, ReferencedStudySequence, vrSQ,
                    itemBytes(s) \o undefinedItemBytes(s), SequenceDelimitationItem),
     elementBytes(s, ReferencedStudySequence, vrSQ, itemBytes(s) \o undefinedItemBytes(s)),
     undefinedBytes(s, ReferencedStudySequence, vrSQ,
                    itemBytes(s) \o nameBytes(s), SequenceDelimitationItem),
     elementBytes(s, ReferencedStudySequence, vrSQ, itemBytes(s) \o nameBytes(s)),
     undefinedBytes(s, PrivateTag, vrUN, itemBytes(s), SequenceDelimitationItem),
     elementBytes(s, ReferencedStudySequence, vrSQ,
                  elementBytes(s, Item, vrNA,
                               undefinedBytes(s, ReferencedStudySequence, vrSQ,
                                              undefinedItemBytes(s),
                                              SequenceDelimitationItem))),
     undefinedBytes(s, PixelData, vrSQ,
                    elementBytes(s, Item, vrNA, <<>>) \o elementBytes(s, Item, vrNA, <<1, 2>>),
                    SequenceDelimitationItem),
     undefinedBytes(s, PixelData, vrUN,
                    elementBytes(s, Item, vrNA, <<>>) \o elementBytes(s, Item, vrNA, <<1, 2>>),
                    SequenceDelimitationItem)}

\* the elements of undefined length given with the VRs UC, UR and UT: a
\* text, a private tag, a sequence and the PixelData, each followed by two
\* items and a sequence delimiter
UndefinedTextStreams(s) ==
    {undefinedBytes(s, tag, vr,
                    elementBytes(s, Item, vrNA, <<>>) \o elementBytes(s, Item, vrNA, <<1, 2>>),
                    SequenceDelimitationItem)
     : tag \in {PatientComments, PrivateTag, ReferencedStudySequence, PixelData},
       vr \in {vrUC, vrUR, vrUT}}

\* the payloads of the strings given: "AB", " A", "A ", "A" and a NUL, two
\* spaces, the empty string, and " AB "
TextPayloads ==
    {<<65, 66>>, <<32, 65>>, <<65, 32>>, <<65, 0>>, <<32, 32>>, <<>>, <<32, 65, 66, 32>>}

\* the elements given with one string each: a date, a long text and an
\* unlimited text
TextStreams(s) ==
    {elementBytes(s, StudyDate, vrDA, payload) : payload \in TextPayloads}
    \cup {elementBytes(s, PatientComments, vrLT, payload) : payload \in TextPayloads}
    \cup {elementBytes(s, PrivateTag, vrUT, payload) : payload \in TextPayloads}

\* the streams ReadElement is given in the coding s
ElementStreams(s) ==
    SequenceStreams(s) \cup UndefinedTextStreams(s) \cup TextStreams(s)

\* the VRs of the numbers, the float blobs and the tags
ListVRs ==
    {vrUS, vrUL, vrSS, vrSL, vrFL, vrFD, vrOF, vrOD, vrAT}

\* the streams of the elements of numbers, blobs and tags: eight bytes or
\* none under a private tag, and two tags of the dictionary
NumberStreams(s) ==
    {elementBytes(s, PrivateTag, vr, payload)
        : vr \in ListVRs \cup {vrOB, vrOW, vrUN}, payload \in {<<>>, <<1, 2, 3, 4, 5, 6, 7, 8>>}}
    \cup {elementBytes(s, SamplesPerPixel, vrUS, <<1, 0, 2, 1>>),
          elementBytes(s, FrameIncrementPointer, vrAT, <<16, 0, 16, 0>>),
          elementBytes(s, PixelData, vrOW, <<1, 2, 3, 4>>)}

\* the children of the item of the nested streams: a name, a tag beyond
\* the stop tag of the options, and a PixelData
childrenBytes(s) ==
    nameBytes(s) \o elementBytes(s, SeriesInstanceUID, vrUI, <<49, 50>>)
        \o elementBytes(s, PixelData, vrOW, <<1, 2, 3, 4>>)

\* a sequence of one item with these children, of defined and of undefined
\* length
NestedStreams(s) ==
    {elementBytes(s, ReferencedStudySequence, vrSQ,
                  elementBytes(s, Item, vrNA, childrenBytes(s))),
     undefinedBytes(s, ReferencedStudySequence, vrSQ,
                    undefinedBytes(s, Item, vrNA, childrenBytes(s), ItemDelimitationItem),
                    SequenceDelimitationItem)}

\* ReadElement(d, options) on a decoder of the stream in the coding s
UReadElement(s, stream, options) ==
    /\ Undecoded
    /\ \E r \in {ReadElement(NewBytesDecoder(stream, s.byteorder, s.implicit), options)} :
          /\ dec' = r.d
          /\ last' = [UnitCall("ReadElement",
                               [coding |-> s, stream |-> stream, options |-> options],
                               r.elem)
                      EXCEPT !.is = r.is, !.returned = ~r.d.panic]

\* the items NewElement is given as values: an item, and an element that is
\* not one
Children ==
    {ElementV(Element(Item, vrNA, FALSE, <<>>)),
     ElementV(Element(PatientName, vrPN, FALSE, <<StringV(<<65, 66>>)>>))}

\* the value lists NewElement is given for a sequence
ChildLists ==
    UNION {[1..n -> Children] : n \in 0..2}

\* NewElement(tag, values...)
UNewElement(tag, values) ==
    /\ Uncalled
    /\ \E r \in {NewElement(tag, values)} :
          last' = [UnitCall("NewElement", [tag |-> tag, values |-> values], r.elem)
                   EXCEPT !.is = IF r.ok THEN IsElem ELSE IsNil]

\* a call that writes and reads back: everything but out, dec and last is
\* left alone
Unwritten ==
    /\ phase = "units"
    /\ last = NoCall
    /\ UNCHANGED <<ds, phase, wres, file, windows, calls, recorded>>

\* the tags whose header is written: the three of the item group, and a
\* sequence
HeaderTags ==
    {Item, ItemDelimitationItem, SequenceDelimitationItem, ReferencedStudySequence}

\* encodeElementHeader(e, tag, vr, vl) on a fresh encoder of the coding s,
\* and ReadElement on a decoder of what it wrote
UEncodeElementHeader(s, tag, vl) ==
    /\ Unwritten
    /\ out' = headerBytes(s, tag, Find(tag).VR, vl)
    /\ \E r \in {ReadElement(NewBytesDecoder(out', s.byteorder, s.implicit), NoOptions)} :
          /\ dec' = r.d
          /\ last' = [UnitCall("encodeElementHeader",
                               [coding |-> s, tag |-> tag, vl |-> vl], r.elem)
                      EXCEPT !.is = r.is, !.returned = ~r.d.panic]

\* the offset tables given, the empty one included
OffsetTables ==
    {<<>>, <<0>>, <<0, 64>>, <<0, 2, 258>>}

\* the frame lists given: none, two frames of 64 bytes, two short frames of
\* different lengths, and three frames with an empty one in the middle
FrameLists ==
    {<<>>,
     <<[i \in 1..64 |-> 1], [i \in 1..64 |-> 2]>>,
     <<<<1, 2>>, <<3, 4, 5, 6>>>>,
     <<<<1, 2>>, <<>>, <<1, 2>>>>}

\* what follows the frames: the sequence delimiter, an item of undefined
\* length, or an element that is not an item
Tails ==
    {"delimiter", "undefined item", "no item"}

tailBytes(s, tail) ==
    IF tail = "delimiter" THEN headerBytes(s, SequenceDelimitationItem, vrNA, 0)
    ELSE IF tail = "undefined item"
    THEN undefinedBytes(s, Item, vrNA, <<1, 2>>, ItemDelimitationItem)
    ELSE nameBytes(s)

RECURSIVE offsetBytes(_, _)
\* the offsets as 32-bit values in the byte order
offsetBytes(byteorder, offsets) ==
    IF offsets = <<>> THEN <<>>
    ELSE orderBytes(byteorder, Head(offsets), 4) \o offsetBytes(byteorder, Tail(offsets))

RECURSIVE itemsBytes(_, _)
\* one item for each frame
itemsBytes(s, frames) ==
    IF frames = <<>> THEN <<>>
    ELSE elementBytes(s, Item, vrNA, Head(frames)) \o itemsBytes(s, Tail(frames))

\* a PixelData of undefined length: the offset table, the frames, the tail
pixelDataBytes(s, offsets, frames, tail) ==
    headerBytes(s, PixelData, vrOB, UndefinedLength)
        \o elementBytes(s, Item, vrNA, offsetBytes(s.byteorder, offsets))
        \o itemsBytes(s, frames)
        \o tailBytes(s, tail)

\* ReadElement on a PixelData of undefined length in the coding s
UReadPixelData(s, offsets, frames, tail) ==
    /\ Undecoded
    /\ \E r \in {ReadElement(NewBytesDecoder(pixelDataBytes(s, offsets, frames, tail),
                                             s.byteorder, s.implicit), NoOptions)} :
          /\ dec' = r.d
          /\ last' = [UnitCall("ReadPixelData",
                               [coding |-> s, offsets |-> offsets, frames |-> frames,
                                tail |-> tail], r.elem)
                      EXCEPT !.is = r.is, !.returned = ~r.d.panic]

\* the string lists written: "1", "12", "1" and "2", "12" and "3", and none
StringLists ==
    {<<StringV(<<49>>)>>, <<StringV(<<49, 50>>)>>,
     <<StringV(<<49>>), StringV(<<50>>)>>,
     <<StringV(<<49, 50>>), StringV(<<51>>)>>,
     <<>>}

\* the blobs written, of the lengths 0 to 4
Blobs ==
    {<<>>, <<1>>, <<1, 2>>, <<1, 2, 3>>, <<1, 2, 3, 4>>}

\* the scalar elements written: strings of the VRs UI, PN, LT and DA, and
\* blobs of the VRs OB and OW
ScalarElements ==
    {Element(StudyInstanceUID, vrUI, FALSE, values) : values \in StringLists}
    \cup {Element(PatientName, vrPN, FALSE, values) : values \in StringLists}
    \cup {Element(PatientComments, vrLT, FALSE, values) : values \in StringLists}
    \cup {Element(StudyDate, vrDA, FALSE, values) : values \in StringLists}
    \cup {Element(FileMetaInformationVersion, vrOB, FALSE, <<BytesV(b)>>) : b \in Blobs}
    \cup {Element(PrivateTag, vrOW, FALSE, <<BytesV(b)>>) : b \in Blobs}

\* the least payload length that 16 bits do not hold
LongLen == 65536

\* the VRs of the long elements: one of the short form, one of the long
LongVRs ==
    {vrPN, vrOB}

\* a name of n letters, a blob of n bytes
longElement(vr, n) ==
    IF vr = vrPN
    THEN Element(PatientName, vrPN, FALSE, <<StringV([i \in 1..n |-> 65])>>)
    ELSE Element(PrivateTag, vrOB, FALSE, <<BytesV([i \in 1..n |-> 1])>>)

\* the lengths of the long elements: around the least one that 16 bits do
\* not hold
LongLens ==
    {LongLen - 2, LongLen, LongLen + 2}

\* WriteElement(e, elem) of a long element on a fresh encoder of the coding
\* s: the call keeps the error, the first twelve bytes written and the
\* number of bytes written
UWriteLongElement(s, vr, n) ==
    /\ Uncalled
    /\ \E e \in {WriteElement(NewBytesEncoder(s.byteorder, s.implicit), longElement(vr, n))} :
          last' = [UnitCall("WriteLongElement", [coding |-> s, VR |-> vr, length |-> n],
                            [err |-> e.err, header |-> SubSeq(e.out, 1, 12),
                             written |-> Len(e.out)])
                   EXCEPT !.returned = ~e.panic]

\* the elements of numbers written
NumberElements ==
    {Element(SamplesPerPixel, vrUS, FALSE, <<UInt16V(1)>>),
     Element(SamplesPerPixel, vrUS, FALSE, <<UInt16V(1), UInt16V(258)>>)}

\* a PixelData element of one value
pixelElement(undefinedLength, value) ==
    Element(PixelData, vrOW, undefinedLength, <<value>>)

\* the elements WriteElement cannot write: a number and a string of the
\* wrong type, a PixelData of no value, of two values and of a value that is
\* no PixelDataInfo, a PixelData of defined length of no frame and of two
\* frames, and a PixelData with a frame of odd length
FailingElements ==
    <<Element(SamplesPerPixel, vrUS, FALSE, <<StringV(<<49>>)>>),
     Element(PatientName, vrPN, FALSE, <<UInt16V(1)>>),
     Element(PixelData, vrOW, TRUE, <<>>),
     Element(PixelData, vrOW, TRUE,
             <<PixelDataInfoV(PixelDataInfo(<<0>>, <<<<1, 2>>>>)),
               PixelDataInfoV(PixelDataInfo(<<0>>, <<<<3, 4>>>>))>>),
     pixelElement(TRUE, BytesV(<<1, 2>>)),
     pixelElement(FALSE, BytesV(<<1, 2>>)),
     pixelElement(FALSE, PixelDataInfoV(PixelDataInfo(<<>>, <<>>))),
     pixelElement(FALSE, PixelDataInfoV(PixelDataInfo(<<>>, <<<<1, 2>>, <<3, 4>>>>))),
     pixelElement(TRUE, PixelDataInfoV(PixelDataInfo(<<0>>, <<<<1, 2, 3>>>>))),
     pixelElement(FALSE, PixelDataInfoV(PixelDataInfo(<<>>, <<<<1, 2, 3>>>>)))>>

\* WriteElement(e, elem) on a fresh encoder of the coding s; failing tells
\* the elements that cannot be written from the others
UWriteElement(s, elem, failing) ==
    /\ Unwritten
    /\ dec' = dec
    /\ \E e \in {WriteElement(NewBytesEncoder(s.byteorder, s.implicit), elem)} :
          /\ out' = e.out
          /\ last' = [UnitCall("WriteElement",
                               [coding |-> s, elem |-> elem, failing |-> failing], e.err)
                      EXCEPT !.returned = ~e.panic]

\* the number of elements a meta list holds beside the three required ones
MaxExtras == 2

\* the elements a meta list may hold beside the three required ones: the
\* three that have a default, two private ones of group 2, a group length, a
\* second TransferSyntaxUID, and an element of the body
ExtraMeta ==
    <<Element(FileMetaInformationVersion, vrOB, FALSE, <<BytesV(<<0, 1>>)>>),
     Element(ImplementationClassUID, vrUI, FALSE, <<StringV(<<49, 46, 57>>)>>),
     Element(ImplementationVersionName, vrSH, FALSE, <<StringV(<<86, 49>>)>>),
     Element(Tag(2, 256), vrUI, FALSE, <<StringV(<<49, 46, 56>>)>>),
     Element(Tag(2, 258), vrOB, FALSE, <<BytesV(<<7, 8>>)>>),
     Element(FileMetaInformationGroupLength, vrUL, FALSE, <<UInt32V(7)>>),
     Element(TransferSyntaxUID, vrUI, FALSE, <<StringV(ImplicitVRLittleEndian)>>),
     Element(PatientName, vrPN, FALSE, <<StringV(<<65, 66>>)>>)>>

\* the lists of different extra elements, as their indices in ExtraMeta
ExtraLists ==
    UNION {{x \in [1..n -> 1..Len(ExtraMeta)] : \A i, j \in 1..n : i # j => x[i] # x[j]}
           : n \in 0..MaxExtras}

\* a meta list given: the three required elements, with the extra ones of
\* the indices x before or after them
metaListOf(x, before) ==
    IF before
    THEN [i \in 1..Len(x) |-> ExtraMeta[x[i]]] \o MetaOf(ExplicitVRLittleEndian)
    ELSE MetaOf(ExplicitVRLittleEndian) \o [i \in 1..Len(x) |-> ExtraMeta[x[i]]]

\* WriteFileHeader(e, metaElements) on a fresh encoder, and ParseFileHeader
\* on a decoder of what it wrote
UWriteFileHeader(metaElements) ==
    /\ Unwritten
    /\ \E e \in {WriteFileHeader(NewBytesEncoder(LittleEndian, ImplicitVR), metaElements)} :
          /\ out' = e.out
          /\ \E r \in {ParseFileHeader(NewBytesDecoder(e.out, LittleEndian, ImplicitVR))} :
                /\ dec' = r.d
                /\ last' = [UnitCall("WriteFileHeader", metaElements, r.elems)
                            EXCEPT !.err = e.err, !.returned = ~e.panic]

\* one value of every Go type NewElement may be given
Atoms ==
    <<StringV(<<65>>), BytesV(<<1, 2>>), UInt16V(1), UInt32V(1), Int16V(1), Int32V(1),
      Float32V(1), Float64V(1), TagV(PatientName),
      PixelDataInfoV(PixelDataInfo(<<>>, <<<<1, 2>>>>)),
      ElementV(Element(Item, vrNA, FALSE, <<>>)),
      ElementV(Element(PatientName, vrPN, FALSE, <<StringV(<<65, 66>>)>>))>>

\* the value lists NewElement is given, as indices in Atoms
MaxValues == 2
AtomLists ==
    UNION {[1..n -> 1..Len(Atoms)] : n \in 0..MaxValues}

\* the values of the indices x
atomsOf(x) ==
    [i \in 1..Len(x) |-> Atoms[x[i]]]

\* the tags NewElement is given: one of every VR of the dictionary, and a
\* private tag the dictionary does not hold
NewTags ==
    {FileMetaInformationGroupLength, FileMetaInformationVersion, TransferSyntaxUID,
     ImplementationVersionName, SpecificCharacterSet, StudyDate,
     ReferencedStudySequence, PatientName, PatientComments, SamplesPerPixel,
     FrameIncrementPointer, PixelData, Item, PrivateTag}

\* the bodies of the datasets written to a failing writer: none, a name, a
\* number
Bodies ==
    <<<<>>,
      <<Element(PatientName, vrPN, FALSE, <<StringV(<<65, 66>>)>>)>>,
      <<Element(SamplesPerPixel, vrUS, FALSE, <<UInt16V(3)>>)>>>>

\* the number of bytes WriteDataSet writes for a dataset
fullLen(elems) ==
    Len(WriteDataSet(MaxInt64, elems).out)

\* the most bytes the writer is short of
MaxShort == 12

\* the bytes the failing writer takes: a few inside the header, and up to
\* MaxShort fewer than the file needs
Rooms(full) ==
    {0, 100, 130, 140} \cup {room \in 0..full : room >= full - MaxShort}

\* WriteDataSet(out, ds) on a writer that fails after room bytes; unchecked
\* is the number of bytes WriteBytes writes after the last write whose
\* error is looked at: the payload of the last element, or the value of
\* the group length and the meta elements of a dataset without a body
UWriteDataSet(uid, i, room) ==
    /\ Uncalled
    /\ \E w \in {WriteDataSet(room, MetaOf(uid) \o Bodies[i])} :
          last' = [UnitCall("WriteDataSet",
                            [uid |-> uid, body |-> i, room |-> room,
                             full |-> fullLen(MetaOf(uid) \o Bodies[i]),
                             unchecked |-> IF i = 1
                                           THEN 4 + Len(encodeMeta(MetaOf(uid)).out)
                                           ELSE 2],
                            w.err)
                   EXCEPT !.returned = ~w.panic, !.err = w.e.err]

NextUnits ==
    \/ \E uid \in Uids : UCanonicalTransferSyntaxUID(uid)
    \/ \E uid \in Uids : UParseTransferSyntaxUID(uid)
    \/ \E encodingNames \in CharsetLists : UParseSpecificCharacterSet(encodingNames)
    \/ \E s \in Codings : \E stream \in ElementStreams(s) : UReadElement(s, stream, NoOptions)
    \/ \E s \in Codings : \E stream \in NumberStreams(s) : UReadElement(s, stream, NoOptions)
    \/ \E s \in Codings : \E stream \in NestedStreams(s) : \E options \in OptionSet :
           UReadElement(s, stream, options)
    \/ \E values \in ChildLists : UNewElement(ReferencedStudySequence, values)
    \/ \E tag \in NewTags : \E x \in AtomLists : UNewElement(tag, atomsOf(x))
    \/ \E s \in Codings : \E tag \in HeaderTags : \E vl \in {0, UndefinedLength} :
           UEncodeElementHeader(s, tag, vl)
    \/ \E s \in Codings : \E offsets \in OffsetTables : \E frames \in FrameLists :
           \E tail \in Tails : UReadPixelData(s, offsets, frames, tail)
    \/ \E s \in Codings : \E elem \in ScalarElements : UWriteElement(s, elem, FALSE)
    \/ \E s \in Codings : \E elem \in NumberElements : UWriteElement(s, elem, FALSE)
    \/ \E s \in Codings : \E vr \in LongVRs : \E n \in LongLens : UWriteLongElement(s, vr, n)
    \/ \E uid \in Syntaxes : \E i \in 1..Len(Bodies) :
           \E room \in Rooms(fullLen(MetaOf(uid) \o Bodies[i])) : UWriteDataSet(uid, i, room)
    \/ \E s \in Codings : \E i \in 1..Len(FailingElements) :
           UWriteElement(s, FailingElements[i], TRUE)
    \/ \E x \in ExtraLists : \E before \in BOOLEAN :
           UWriteFileHeader(metaListOf(x, before))

SpecUnits == InitUnits /\ [][NextUnits]_vars

\* ------------------------------------------------------------------------
\* C11, C12: the transfer syntax of a UID

\* the byte order and the VR form of a transfer syntax, returned with no error
syntaxIs(r, byteorder, implicit) ==
    /\ ~r.panic
    /\ r.err = Nil
    /\ r.byteorder = byteorder
    /\ r.implicit = implicit

\* C11: ParseTransferSyntaxUID maps Implicit VR Little Endian to (little,
\* implicit), Explicit VR Little Endian and Deflated Explicit VR Little
\* Endian to (little, explicit), Explicit VR Big Endian to (big, explicit) and
\* every other UID the registry classifies as a transfer syntax to (little,
\* explicit), each with a nil error.
C11_ParseTransferSyntaxUID ==
    last.op = "ParseTransferSyntaxUID" /\ last.arg \in TransferSyntaxUids =>
        IF last.arg = ImplicitVRLittleEndian
        THEN syntaxIs(last.v, LittleEndian, ImplicitVR)
        ELSE IF last.arg = ExplicitVRBigEndian
        THEN syntaxIs(last.v, BigEndian, ExplicitVR)
        ELSE syntaxIs(last.v, LittleEndian, ExplicitVR)

\* C11: a transfer syntax that is none of the four named ones was resolved
\* to (little, explicit)
C11_Witness ==
    /\ last.op = "ParseTransferSyntaxUID"
    /\ last.arg = JPEGBaseline
    /\ syntaxIs(last.v, LittleEndian, ExplicitVR)

\* C12 (as the claim states it): for every UID that is not a registered
\* transfer-syntax UID, unknown to the registry or of another category,
\* CanonicalTransferSyntaxUID and ParseTransferSyntaxUID return a non-nil
\* error: no success, no abort.
C12_ErrorForOtherUids ==
    /\ last.op = "CanonicalTransferSyntaxUID" /\ last.arg \notin TransferSyntaxUids =>
          last.v.err # Nil
    /\ last.op = "ParseTransferSyntaxUID" /\ last.arg \notin TransferSyntaxUids =>
          ~last.v.panic /\ last.v.err # Nil

\* C12, what does hold: a registered UID of another category is an error of
\* both functions; a UID the registry does not know is a success of
\* CanonicalTransferSyntaxUID, with the empty UID, and a panic of
\* ParseTransferSyntaxUID
C12_ErrorForOtherCategory ==
    /\ last.op = "CanonicalTransferSyntaxUID" /\ last.arg \notin TransferSyntaxUids =>
          IF last.arg \in DOMAIN uidDict
          THEN last.v.err # Nil
          ELSE last.v = [uid |-> <<>>, err |-> Nil]
    /\ last.op = "ParseTransferSyntaxUID" /\ last.arg \notin TransferSyntaxUids =>
          IF last.arg \in DOMAIN uidDict
          THEN ~last.v.panic /\ last.v.err # Nil
          ELSE last.v.panic

\* C12: ParseTransferSyntaxUID was given a UID the registry does not know,
\* and panicked
C12_Witness ==
    /\ last.op = "ParseTransferSyntaxUID"
    /\ last.arg = <<49, 46, 50>>
    /\ last.v.panic

\* ------------------------------------------------------------------------
\* C13: the coding system of a list of charset names

\* the decoder of the i-th name given
decoderOfName(i) ==
    htmlEncodingNames[last.arg[i]]

\* the three decoders returned, with no error
codingSystemIs(alphabetic, ideographic, phonetic) ==
    /\ last.v.err = Nil
    /\ last.v.cs = [Alphabetic |-> alphabetic, Ideographic |-> ideographic,
                    Phonetic |-> phonetic]

RECURSIVE onlyItems(_, _)
\* every element of VR SQ in the tree of e, the ones of a tag in `but`
\* excepted, has elements of tag Item as its only values
onlyItems(e, but) ==
    /\ (e.VR = vrSQ /\ e.Tag \notin but) =>
           \A i \in 1..Len(e.Value) :
               e.Value[i].k = "*Element" /\ e.Value[i].v.Tag = Item
    /\ \A i \in 1..Len(e.Value) :
           e.Value[i].k = "*Element" => onlyItems(e.Value[i].v, but)

\* an element was returned by ReadElement or by NewElement
elementReturned ==
    last.op \in {"ReadElement", "NewElement"} /\ last.returned /\ last.is = IsElem

\* C14: every element of VR SQ that ReadElement returns, at any depth, and
\* every one NewElement accepts, has only elements of tag Item as values.
C14_OnlyItems ==
    elementReturned => onlyItems(last.v, {})

\* C14, of the sequences that are not the PixelData: they hold only items,
\* and a child that is not an item leaves an error and is not added
C14_OnlyItemsButPixelData ==
    elementReturned => onlyItems(last.v, {PixelData})

\* C14: an element of the PixelData tag was read with the VR SQ and holds a
\* PixelDataInfo
C14_Witness ==
    /\ last.op = "ReadElement"
    /\ last.is = IsElem
    /\ last.v.Tag = PixelData
    /\ last.v.VR = vrSQ
    /\ dec.err = Nil
    /\ Len(last.v.Value) = 1
    /\ last.v.Value[1].k = "PixelDataInfo"

\* ------------------------------------------------------------------------
\* C15: the header of the elements of the item group

\* a header of the item group was written and read back
itemHeaderWritten ==
    last.op = "encodeElementHeader" /\ last.arg.tag.Group = ItemSeqGroup

\* C15: whatever the transfer syntax, the header of an element of group
\* FFFE is written as the group, the element and a 32-bit length, with no VR
\* bytes, and ReadElement reads the tag and the length back from exactly
\* those 8 bytes.
C15_ItemGroupImplicit ==
    itemHeaderWritten =>
        /\ out = orderBytes(last.arg.coding.byteorder, last.arg.tag.Group, 2)
                 \o orderBytes(last.arg.coding.byteorder, last.arg.tag.Element, 2)
                 \o orderBytes(last.arg.coding.byteorder, last.arg.vl, 4)
        /\ Len(out) = 8
        /\ dec.pos = 8
        /\ ~dec.panic
        /\ last.is = IsElem =>
               /\ last.v.Tag = last.arg.tag
               /\ last.v.VR = vrNA
               /\ last.v.UndefinedLength = (last.arg.vl = UndefinedLength)
        /\ last.arg.vl = 0 => (last.is = IsElem /\ dec.err = Nil)

\* C15: under Explicit VR Big Endian an empty Item was written in 8 bytes and
\* read back
C15_Witness ==
    /\ itemHeaderWritten
    /\ last.arg.coding = [byteorder |-> BigEndian, implicit |-> ExplicitVR]
    /\ last.arg.tag = Item
    /\ last.arg.vl = 0
    /\ out = <<255, 254, 224, 0, 0, 0, 0, 0>>
    /\ last.is = IsElem
    /\ last.v.Tag = Item
    /\ dec.pos = 8
    /\ dec.err = Nil

\* ------------------------------------------------------------------------
\* C16: an undefined length with the VRs UC, UR and UT

\* ReadElement was given, under explicit VR, an element of one of the VRs
\* with the length 0xFFFFFFFF
undefinedLengthRead(vrs) ==
    /\ last.op = "ReadElement"
    /\ last.arg.coding.implicit = ExplicitVR
    /\ Len(last.arg.stream) >= 12
    /\ SubSeq(last.arg.stream, 5, 6) \in vrs
    /\ SubSeq(last.arg.stream, 9, 12) = <<255, 255, 255, 255>>

\* C16: reading under explicit VR an element of VR UC, UR or UT with the
\* length 0xFFFFFFFF records an error on the decoder, whatever the tag.
C16_UndefinedLengthError ==
    undefinedLengthRead({vrUC, vrUR, vrUT}) => dec.err # Nil

\* C16, of the VRs readExplicit does test: UC and UR
C16_UndefinedLengthErrorUCUR ==
    undefinedLengthRead({vrUC, vrUR}) => dec.err # Nil

\* C16, of UT with another tag than the PixelData: the error is the one of
\* the scalar branch of ReadElement
C16_UndefinedLengthErrorButPixelData ==
    (undefinedLengthRead({vrUT}) /\ last.v.Tag # PixelData) => dec.err # Nil

\* C16: the PixelData was read with the VR UT and an undefined length, and
\* no error was recorded
C16_Witness ==
    /\ undefinedLengthRead({vrUT})
    /\ last.is = IsElem
    /\ last.v.Tag = PixelData
    /\ last.v.VR = vrUT
    /\ last.v.UndefinedLength
    /\ dec.err = Nil

\* ------------------------------------------------------------------------
\* C17: the string of a DA, LT or UT element

\* the length of the header of the element read: 12 bytes for an explicit VR
\* of the long form, 8 otherwise
headerLen ==
    IF last.arg.coding.implicit = ExplicitVR /\ last.v.VR \in LongFormVRs THEN 12 ELSE 8

\* the payload of the element read, the stream holding that element alone
payloadRead ==
    SubSeq(last.arg.stream, headerLen + 1, Len(last.arg.stream))

\* ReadElement returned an element of defined length of one of the VRs
textRead(vrs) ==
    /\ last.op = "ReadElement"
    /\ last.is = IsElem
    /\ last.v.VR \in vrs
    /\ ~last.v.UndefinedLength

\* C17: for an element of VR DA, LT or UT of defined length ReadElement
\* returns exactly one string, the payload with its trailing spaces and NULs
\* removed and all the rest, leading spaces included, kept.
C17_TrailingTrimmed ==
    textRead({vrDA, vrLT, vrUT}) =>
        last.v.Value = <<StringV(TrimRight(payloadRead, {32, 0}))>>

\* C17, as the code reads: one string, a DA trimmed at both ends, an LT or
\* a UT as it is in the stream
C17_OneString ==
    /\ textRead({vrDA}) => last.v.Value = <<StringV(Trim(payloadRead))>>
    /\ textRead({vrLT, vrUT}) => last.v.Value = <<StringV(payloadRead)>>

\* C17: a long text "A " was read with its trailing space
C17_Witness ==
    /\ textRead({vrLT})
    /\ payloadRead = <<65, 32>>
    /\ last.v.Value = <<StringV(<<65, 32>>)>>
    /\ dec.err = Nil

\* C17: a date " A" was read without its leading space
C17_WitnessDate ==
    /\ textRead({vrDA})
    /\ payloadRead = <<32, 65>>
    /\ last.v.Value = <<StringV(<<65>>)>>
    /\ dec.err = Nil

\* ------------------------------------------------------------------------
\* C18: the PixelData of undefined length

scalarWritten ==
    last.op = "WriteElement" /\ ~last.arg.failing

\* the length of the header written before the payload
writtenHeaderLen ==
    IF last.arg.coding.implicit = ExplicitVR /\ last.arg.elem.VR \in LongFormVRs
    THEN 12 ELSE 8

\* the payload written after the header
payloadWritten ==
    SubSeq(out, writtenHeaderLen + 1, Len(out))

RECURSIVE joined(_)
\* the strings of the values with a backslash between them
joined(values) ==
    IF values = <<>> THEN <<>>
    ELSE IF Len(values) = 1 THEN values[1].v
    ELSE values[1].v \o <<92>> \o joined(Tail(values))

\* b, followed by the byte pad when its length is odd
padded(b, pad) ==
    IF Len(b) % 2 = 1 THEN Append(b, pad) ELSE b

\* the 16-bit words of b, which is in the native byte order, in the byte
\* order of the stream
wordsIn(byteorder, b) ==
    IF byteorder = NativeByteOrder THEN b
    ELSE [i \in 1..Len(b) |-> IF i % 2 = 1 THEN b[i + 1] ELSE b[i - 1]]

\* C19: the payload WriteElement writes for a scalar element has an even
\* length, and the header carries that length: the joined strings of a UI
\* element are followed by one NUL when their length is odd, those of
\* another string VR by one space, an OB blob of odd length by one NUL; a
\* value of even length is written with nothing added (the words of an OW
\* blob in the byte order of the stream); an OW blob of odd length is an
\* error.
C19_EvenPayload ==
    scalarWritten =>
        /\ last.returned
        /\ Len(payloadWritten) % 2 = 0
        /\ SubSeq(out, 1, writtenHeaderLen)
               = headerBytes(last.arg.coding, last.arg.elem.Tag, last.arg.elem.VR,
                             Len(payloadWritten))
        /\ last.arg.elem.VR = vrUI =>
               payloadWritten = padded(joined(last.arg.elem.Value), 0)
        /\ last.arg.elem.VR \in {vrPN, vrLT, vrDA} =>
               payloadWritten = padded(joined(last.arg.elem.Value), 32)
        /\ last.arg.elem.VR = vrOB =>
               payloadWritten = padded(last.arg.elem.Value[1].v, 0)
        /\ (last.arg.elem.VR = vrOW /\ Len(last.arg.elem.Value[1].v) % 2 = 0) =>
               /\ payloadWritten = wordsIn(last.arg.coding.byteorder,
                                           last.arg.elem.Value[1].v)
               /\ last.v = Nil
        /\ (last.arg.elem.VR = vrOW /\ Len(last.arg.elem.Value[1].v) % 2 = 1) =>
               last.v # Nil
        /\ last.arg.elem.VR # vrOW => last.v = Nil

\* C19: a UI element of the strings "1" and "2" was written as "1\2" and a
\* NUL
C19_Witness ==
    /\ scalarWritten
    /\ last.arg.elem.VR = vrUI
    /\ Len(last.arg.elem.Value) = 2
    /\ payloadWritten = <<49, 92, 50, 0>>
    /\ last.v = Nil

\* C19: an OW blob of three bytes was refused
C19_WitnessOW ==
    /\ scalarWritten
    /\ last.arg.elem.VR = vrOW
    /\ Len(last.arg.elem.Value[1].v) = 3
    /\ last.v # Nil

\* ------------------------------------------------------------------------
\* C20: the order of the meta elements WriteFileHeader writes

\* the six elements WriteFileHeader writes first, in their order
NamedMeta ==
    <<FileMetaInformationVersion, MediaStorageSOPClassUID, MediaStorageSOPInstanceUID,
      TransferSyntaxUID, ImplementationClassUID, ImplementationVersionName>>

RECURSIVE remainingMeta(_)
\* the elements of group 2 of a list that are none of the six, nor the group
\* length that WriteFileHeader computes, in list order
remainingMeta(metaElements) ==
    IF metaElements = <<>> THEN <<>>
    ELSE IF /\ Head(metaElements).Tag.Group = MetadataGroup
            /\ Head(metaElements).Tag # FileMetaInformationGroupLength
            /\ \A i \in 1..Len(NamedMeta) : Head(metaElements).Tag # NamedMeta[i]
    THEN <<Head(metaElements)>> \o remainingMeta(Tail(metaElements))
    ELSE remainingMeta(Tail(metaElements))

\* the six elements as the claim has them: the first one of the list with
\* the tag, or the default
namedElements(metaElements) ==
    <<headerElement(metaElements, FileMetaInformationVersion,
                    BytesV(DefaultFileMetaInformationVersion)),
      headerElement(metaElements, MediaStorageSOPClassUID, StringV(<<>>)),
      headerElement(metaElements, MediaStorageSOPInstanceUID, StringV(<<>>)),
      headerElement(metaElements, TransferSyntaxUID, StringV(<<>>)),
      headerElement(metaElements, ImplementationClassUID,
                    StringV(GoDICOMImplementationClassUID)),
      headerElement(metaElements, ImplementationVersionName,
                    StringV(GoDICOMImplementationVersionName))>>

RECURSIVE encoded(_)
\* the bytes of the elements under Explicit VR Little Endian, one after the
\* other
encoded(elems) ==
    IF elems = <<>> THEN <<>>
    ELSE WriteElement(NewBytesEncoder(LittleEndian, ExplicitVR), Head(elems)).out
             \o encoded(Tail(elems))

\* the header was written
headerWritten ==
    last.op = "WriteFileHeader"

\* C20: for a meta list that holds the three required elements,
\* WriteFileHeader writes, after the preamble, the magic word and the group
\* length of 12 bytes, FileMetaInformationVersion ("0 1" when the list has
\* none), MediaStorageSOPClassUID, MediaStorageSOPInstanceUID,
\* TransferSyntaxUID, ImplementationClassUID and ImplementationVersionName
\* (the defaults when the list has none), then the other elements of group 2
\* in list order; none of the six is written a second time.
C20_MetaOrder ==
    headerWritten =>
        /\ last.returned
        /\ last.err = Nil
        /\ SubSeq(out, 128 + 4 + 12 + 1, Len(out))
               = encoded(namedElements(last.arg) \o remainingMeta(last.arg))
        /\ TagsOf(last.v)
               = <<FileMetaInformationGroupLength>> \o NamedMeta
                      \o TagsOf(remainingMeta(last.arg))
        /\ \A i \in 1..Len(NamedMeta) :
               Cardinality({j \in 1..Len(last.v) : last.v[j].Tag = NamedMeta[i]}) = 1

\* C20: a list with a private element and an ImplementationClassUID before
\* the required three was written: the defaults, the required three and the
\* ImplementationClassUID in the prescribed order, the private element last
C20_Witness ==
    /\ headerWritten
    /\ Len(last.arg) = 5
    /\ last.arg[1].Tag = Tag(2, 256)
    /\ last.arg[2].Tag = ImplementationClassUID
    /\ TagsOf(last.v) = <<FileMetaInformationGroupLength>> \o NamedMeta \o <<Tag(2, 256)>>
    /\ last.v[2].Value = <<BytesV(<<48, 32, 49, 0>>)>>
    /\ last.v[6].Value = <<StringV(<<49, 46, 57>>)>>
    /\ last.v[7].Value = <<StringV(GoDICOMImplementationVersionName)>>

\* ------------------------------------------------------------------------
\* C21: the preamble and the group length of the header

\* the number of bytes before the meta elements: the preamble, the magic
\* word, and the group length element of 12 bytes
PreambleLen == 128

metaStart ==
    PreambleLen + 4 + 12

\* the group-length elements among the elements read back
groupLengthsRead ==
    {j \in 1..Len(last.v) : last.v[j].Tag = FileMetaInformationGroupLength}

\* C21: the header WriteFileHeader writes is 128 zero bytes, "DICM", then
\* one FileMetaInformationGroupLength element, (0002,0000) UL of length 4,
\* whose value is the number of bytes that follow it to the end of the
\* header: ParseFileHeader stops at the end of what was written.  The value
\* is computed, and a group length of the list is not written.
C21_GroupLength ==
    headerWritten =>
        /\ last.returned
        /\ last.err = Nil
        /\ SubSeq(out, 1, PreambleLen) = Zeros(PreambleLen)
        /\ SubSeq(out, PreambleLen + 1, PreambleLen + 4) = DICM
        /\ SubSeq(out, PreambleLen + 5, metaStart)
               = <<2, 0, 0, 0>> \o vrUL \o <<4, 0>> \o leBytes(Len(out) - metaStart, 4)
        /\ Cardinality(groupLengthsRead) = 1
        /\ last.v[1] = Element(FileMetaInformationGroupLength, vrUL, FALSE,
                               <<UInt32V(Len(out) - metaStart)>>)
        /\ dec.err = Nil
        /\ dec.pos = Len(out)

\* C21: a list that holds a group length of 7 was written, and the header
\* holds one group length, of the bytes that follow
C21_Witness ==
    /\ headerWritten
    /\ \E i \in 1..Len(last.arg) :
          /\ last.arg[i].Tag = FileMetaInformationGroupLength
          /\ last.arg[i].Value[1].v = 7
    /\ Cardinality(groupLengthsRead) = 1
    /\ last.v[1].Value = <<UInt32V(Len(out) - metaStart)>>
    /\ Len(out) - metaStart > 7
    /\ dec.pos = Len(out)

\* ------------------------------------------------------------------------
\* C22: the failures of WriteElement

\* WriteElement was given an element it cannot write
failureWritten ==
    last.op = "WriteElement" /\ last.arg.failing

\* C22: whatever the element, WriteElement returns, and when the element
\* cannot be written the error of the encoder is set: a value of the wrong
\* type, a PixelData whose Value is not one PixelDataInfo, a PixelData of
\* defined length whose frames are not one, a frame of odd length.
C22_ErrorAndReturn ==
    failureWritten => (last.returned /\ last.v # Nil)

\* C22, of the values of the wrong type outside the PixelData, and of a
\* PixelData of undefined length whose value is not one PixelDataInfo: the
\* error is set and the call returns
C22_ErrorForWrongType ==
    (failureWritten /\ (last.arg.elem.Tag # PixelData
                        \/ (last.arg.elem.UndefinedLength
                            /\ Len(last.arg.elem.Value) > 0
                            /\ \A i \in 1..Len(last.arg.elem.Value) :
                                   last.arg.elem.Value[i].k = "PixelDataInfo" =>
                                       \A j \in 1..Len(last.arg.elem.Value[i].v.Frames) :
                                           Len(last.arg.elem.Value[i].v.Frames[j]) % 2 = 0)))
        => (last.returned /\ last.v # Nil)

\* C22: a PixelData of undefined length with a frame of three bytes was
\* given, and the call did not return
C22_Witness ==
    /\ failureWritten
    /\ last.arg.elem.Tag = PixelData
    /\ last.arg.elem.UndefinedLength
    /\ Len(last.arg.elem.Value) = 1
    /\ last.arg.elem.Value[1].k = "PixelDataInfo"
    /\ last.arg.elem.Value[1].v.Frames = <<<<1, 2, 3>>>>
    /\ ~last.returned

\* C22: a PixelData of defined length with two frames was given, and the
\* call did not return
C22_WitnessFrames ==
    /\ failureWritten
    /\ last.arg.elem.Tag = PixelData
    /\ ~last.arg.elem.UndefinedLength
    /\ Len(last.arg.elem.Value) = 1
    /\ last.arg.elem.Value[1].k = "PixelDataInfo"
    /\ Len(last.arg.elem.Value[1].v.Frames) = 2
    /\ ~last.returned

\* ------------------------------------------------------------------------
\* C23: NewElement and the atom types of the VR kinds

\* the atom type a VR kind prescribes: string for the string list, the
\* single string and the date, []byte for bytes, the numeric types, Tag for
\* the tag list, PixelDataInfo for pixel data, an Item element for a
\* sequence and an element for an item
kindHolds(vrKind, v) ==
    IF vrKind \in {"VRStringList", "VRString", "VRDate"} THEN v.k = "string"
    ELSE IF vrKind = "VRBytes" THEN v.k = "[]byte"
    ELSE IF vrKind = "VRUInt16List" THEN v.k = "uint16"
    ELSE IF vrKind = "VRUInt32List" THEN v.k = "uint32"
    ELSE IF vrKind = "VRInt16List" THEN v.k = "int16"
    ELSE IF vrKind = "VRInt32List" THEN v.k = "int32"
    ELSE IF vrKind = "VRFloat32List" THEN v.k = "float32"
    ELSE IF vrKind = "VRFloat64List" THEN v.k = "float64"
    ELSE IF vrKind = "VRTagList" THEN v.k = "Tag"
    ELSE IF vrKind = "VRPixelData" THEN v.k = "PixelDataInfo"
    ELSE IF vrKind = "VRSequence" THEN v.k = "*Element" /\ v.v.Tag = Item
    ELSE IF vrKind = "VRItem" THEN v.k = "*Element"
    ELSE FALSE

\* NewElement was called
elementMade ==
    last.op = "NewElement"

\* every value given has the atom type of the kind of the tag
valuesHold ==
    \A i \in 1..Len(last.arg.values) :
        kindHolds(GetVRKind(last.arg.tag, Find(last.arg.tag).VR), last.arg.values[i])

\* C23: NewElement returns an element exactly when the tag is in the
\* dictionary and every value has the atom type of the VR kind of the tag,
\* a string for the single-string kind of LT and UT included; otherwise it
\* returns the error and no element
C23_SucceedsIffTyped ==
    elementMade => (last.is = IsElem <=> (Find(last.arg.tag).ok /\ valuesHold))

\* C23: what holds: a tag of the single-string kind is given an element
\* only when no value is given, and every other tag exactly when the values
\* have the type of the kind
C23_SucceedsButSingleString ==
    elementMade =>
        (last.is = IsElem <=>
            /\ Find(last.arg.tag).ok
            /\ valuesHold
            /\ (GetVRKind(last.arg.tag, Find(last.arg.tag).VR) = "VRString"
                   => Len(last.arg.values) = 0))

\* C23: PatientComments (LT) was given one string, and no element was made
C23_Witness ==
    /\ elementMade
    /\ last.arg.tag = PatientComments
    /\ Len(last.arg.values) = 1
    /\ last.arg.values[1].k = "string"
    /\ last.is = IsNil

\* ------------------------------------------------------------------------
\* C24: the atom types of the elements ReadElement returns

\* the kind whose atom type ReadElement gives the values of a <tag, vr>:
\* the kind GetVRKind reports, but float32 for OF and float64 for OD
kindRead(tag, vr) ==
    IF tag \in {Item, PixelData} THEN GetVRKind(tag, vr)
    ELSE IF vr = vrOF THEN "VRFloat32List"
    ELSE IF vr = vrOD THEN "VRFloat64List"
    ELSE GetVRKind(tag, vr)

\* ReadElement returned an element
elementRead ==
    last.op = "ReadElement" /\ elementReturned

\* C24: every value of an element ReadElement returns has the atom type
\* GetVRKind(Tag, VR) prescribes; in particular the values of FL and OF are
\* float32, those of FD and OD float64, and GetVRKind reports the float
\* list kinds for them
C24_KindOfValues ==
    elementRead =>
        \A i \in 1..Len(last.v.Value) :
            kindHolds(GetVRKind(last.v.Tag, last.v.VR), last.v.Value[i])

\* C24: what holds: the values have the type of the kind GetVRKind
\* reports for every VR but OF and OD, whose values are float32 and
\* float64 while GetVRKind reports the string list kind
C24_KindOfValuesButOFOD ==
    elementRead =>
        /\ \A i \in 1..Len(last.v.Value) :
               kindHolds(kindRead(last.v.Tag, last.v.VR), last.v.Value[i])
        /\ last.v.VR \in {vrOF, vrOD} /\ last.v.Tag \notin {Item, PixelData}
               => GetVRKind(last.v.Tag, last.v.VR) = "VRStringList"

\* C24: an element of VR OF was read with two float32 values
C24_Witness ==
    /\ elementRead
    /\ last.v.VR = vrOF
    /\ Len(last.v.Value) = 2
    /\ last.v.Value[1].k = "float32"

\* ------------------------------------------------------------------------
\* C25: the first error across the limit windows

\* every PushLimit has been matched by its PopLimit
windowsMatched ==
    phase \in {"decoder", "overflowed"} /\ ~dec.panic /\ dec.stateStack = <<>>

\* C25: once every PushLimit is matched by a PopLimit, Error() is the first
\* error recorded on the decoder, by a SetError of the caller, a read, a
\* skip, a PushLimit or a PopLimit, and it is nil exactly when none was
C25_FirstErrorKept ==
    windowsMatched => Error(dec) = recorded

\* C25: an error was recorded before a window was pushed and another
\* inside the window, and the window has been popped
C25_Witness ==
    /\ windowsMatched
    /\ last.op = "PopLimit"
    /\ last.err # Nil
    /\ last.err # recorded
    /\ Error(dec) = recorded

\* C25: an error was recorded inside a window pushed without one, and the
\* window has been popped
C25_WitnessInner ==
    /\ windowsMatched
    /\ last.op = "PopLimit"
    /\ last.err # Nil
    /\ last.err = recorded
    /\ Error(dec) = last.err

\* ------------------------------------------------------------------------
\* C26: the body loop of ReadDataSet makes progress

\* an iteration of the body loop was made: the decoder was not at EOF, and
\* ReadElement was called on it
iterated ==
    phase \in {"written", "damaged"} /\ last.op = "ReadElement"

\* C26: every iteration of the body loop of ReadDataSet, made on a decoder
\* that is not at EOF, leaves BytesRead strictly larger than it found it, so
\* the abort on an element read that consumed nothing is never taken; and
\* ReadDataSet itself returns without that abort on every file
C26_Progress ==
    /\ iterated => (last.returned /\ BytesRead(dec) > last.pos)
    /\ file.done => ~file.panic

\* C26: an iteration found a single stray byte after the last element,
\* consumed it and recorded the error
C26_Witness ==
    /\ iterated
    /\ phase = "damaged"
    /\ last.pos = Len(out) - 1
    /\ BytesRead(dec) = Len(out)
    /\ Error(dec) # Nil

\* ------------------------------------------------------------------------
\* C27: the read options and the children of a sequence

\* ReadElement was given a sequence of one item, with options
nestedRead ==
    /\ last.op = "ReadElement"
    /\ last.arg.stream \in NestedStreams(last.arg.coding)
    /\ last.arg.options # NoOptions

\* the tags of the values of an element
childTags(e) ==
    [i \in 1..Len(e.Value) |-> e.Value[i].v.Tag]

\* C27: whatever DropPixelData, StopAtTag and ReturnTags say, ReadElement
\* reads and keeps every child of a sequence: the item, whose tag is beyond
\* the stop tag, and in it the name, the element beyond the stop tag and
\* the PixelData, as it does with no option
C27_ChildrenUnfiltered ==
    nestedRead =>
        /\ last.returned
        /\ last.is = IsElem
        /\ last.v.Tag = ReferencedStudySequence
        /\ childTags(last.v) = <<Item>>
        /\ childTags(last.v.Value[1].v) = <<PatientName, SeriesInstanceUID, PixelData>>
        /\ BytesRead(dec) = Len(last.arg.stream)
        /\ Error(dec) = Nil

\* C27: a sequence was read with DropPixelData and a stop tag set, and the
\* item it returned holds the PixelData
C27_Witness ==
    /\ nestedRead
    /\ last.arg.options.DropPixelData
    /\ last.arg.options.StopAtTag # <<>>
    /\ last.is = IsElem
    /\ childTags(last.v.Value[1].v)[3] = PixelData

\* ------------------------------------------------------------------------
\* C28: the meta header is little-endian explicit VR, the body is coded by
\* the declared transfer syntax

\* the transfer syntax the dataset declares
declared ==
    ParseTransferSyntaxUID(ds[3].Value[1].v)

\* the body elements of the dataset, encoded under the declared syntax
bodyBytes ==
    writeElements(NewBytesEncoder(declared.byteorder, declared.implicit),
                  SelectGroup(ds, FALSE)).out

\* the dataset declares a syntax, and WriteDataSet wrote it to a file that
\* is still as written
written ==
    /\ phase = "written"
    /\ Len(ds) >= 3
    /\ ds[3].Tag = TransferSyntaxUID
    /\ wres.done
    /\ wres.err = Nil
    /\ ~wres.panic

\* C28: WriteDataSet writes the body elements under the declared transfer
\* syntax, after a header that ParseFileHeader decodes as little-endian
\* explicit VR up to the end of the group-length window, whatever syntax
\* the TransferSyntaxUID declares; the reader then holds the declared
\* syntax for the body, with little-endian explicit VR the syntax it
\* returns to, and ReadDataSet decodes the whole file without an error
C28_HeaderAndBody ==
    written =>
        /\ SubSeq(out, Len(out) - Len(bodyBytes) + 1, Len(out)) = bodyBytes
        /\ last.op = "ParseFileHeader" =>
               /\ last.returned
               /\ Error(dec) = Nil
               /\ BytesRead(dec) = Len(out) - Len(bodyBytes)
               /\ TransferSyntax(dec) =
                      [byteorder |-> declared.byteorder, implicit |-> declared.implicit]
               /\ dec.oldTransferSyntaxes =
                      <<[byteorder |-> LittleEndian, implicit |-> ExplicitVR]>>
        /\ (file.done /\ file.options = NoOptions) =>
               /\ ~file.panic
               /\ file.err = Nil
               /\ file.pos = Len(out)

\* C28: a dataset that declares explicit VR big-endian was written with a
\* body, and ParseFileHeader has read its header
C28_Witness ==
    /\ written
    /\ ds[3].Value[1].v = ExplicitVRBigEndian
    /\ Len(bodyBytes) > 0
    /\ last.op = "ParseFileHeader"
    /\ TransferSyntax(dec) = [byteorder |-> BigEndian, implicit |-> ExplicitVR]

\* C28: a dataset that declares implicit VR was written and read back whole
C28_WitnessImplicit ==
    /\ written
    /\ ds[3].Value[1].v = ImplicitVRLittleEndian
    /\ Len(bodyBytes) > 0
    /\ file.done
    /\ file.options = NoOptions
    /\ file.pos = Len(out)

\* ------------------------------------------------------------------------
\* C29: the length field of the header and the payload

\* the header of an element of the VR vr in the coding s is of the 16-bit
\* short form
shortForm(s, vr) ==
    s.implicit = ExplicitVR /\ vr \notin LongFormVRs

\* the length of that header
headerLenOf(s, vr) ==
    IF s.implicit = ExplicitVR /\ vr \in LongFormVRs THEN 12 ELSE 8

\* the bytes of the length field of the header b, least significant first
lengthBytes(s, vr, b) ==
    IF s.byteorder = BigEndian
    THEN (IF shortForm(s, vr) THEN <<b[8], b[7]>>
          ELSE <<b[headerLenOf(s, vr)], b[headerLenOf(s, vr) - 1],
                 b[headerLenOf(s, vr) - 2], b[headerLenOf(s, vr) - 3]>>)
    ELSE (IF shortForm(s, vr) THEN SubSeq(b, 7, 8)
          ELSE SubSeq(b, headerLenOf(s, vr) - 3, headerLenOf(s, vr)))

\* the length field of the header b
lengthField(s, vr, b) ==
    IF shortForm(s, vr) THEN U16(lengthBytes(s, vr, b)) ELSE U32(lengthBytes(s, vr, b))

\* a scalar element was written without an error
scalarEmitted ==
    scalarWritten /\ last.returned /\ last.v = Nil

\* a long element was written without an error
longEmitted ==
    last.op = "WriteLongElement" /\ last.returned /\ last.v.err = Nil

\* C29: the length field of the header WriteElement writes for an element
\* of defined length is the number of payload bytes that follow, in the
\* 16-bit short form as in the 32-bit forms; the length of a short-form
\* payload of 65536 bytes or more is not cut to its low 16 bits
C29_LengthField ==
    /\ scalarEmitted =>
           lengthField(last.arg.coding, last.arg.elem.VR, out) = Len(payloadWritten)
    /\ longEmitted =>
           lengthField(last.arg.coding, last.arg.VR, last.v.header)
               = last.v.written - headerLenOf(last.arg.coding, last.arg.VR)

\* C29: what holds: the 32-bit forms carry the number of payload bytes, the
\* short form carries it modulo 2^16
C29_LengthFieldModulo ==
    /\ scalarEmitted =>
           lengthField(last.arg.coding, last.arg.elem.VR, out) = Len(payloadWritten)
    /\ longEmitted =>
           /\ last.v.written = headerLenOf(last.arg.coding, last.arg.VR) + last.arg.length
           /\ lengthField(last.arg.coding, last.arg.VR, last.v.header)
                  = IF shortForm(last.arg.coding, last.arg.VR)
                    THEN last.arg.length % 65536
                    ELSE last.arg.length

\* C29: a name of 65536 letters was written in the short form, with a
\* length field of zero before the 65536 bytes
C29_Witness ==
    /\ longEmitted
    /\ shortForm(last.arg.coding, last.arg.VR)
    /\ last.v.written = 8 + LongLen
    /\ lengthField(last.arg.coding, last.arg.VR, last.v.header) = 0

\* ------------------------------------------------------------------------
\* C30: the failures of the underlying writer

\* WriteDataSet was called on a writer that took fewer bytes than the file
\* needs, so that a write failed
writeFailed ==
    last.op = "WriteDataSet" /\ last.arg.room < last.arg.full

\* C30: when a write to the underlying writer fails during WriteDataSet,
\* in a typed write, WriteString, WriteBytes or WriteZeros, the error of the
\* encoder is set and WriteDataSet returns an error, also when the only
\* write that fails is the payload of the last element
C30_FailureReported ==
    writeFailed => (last.returned /\ last.err # Nil /\ last.v # Nil)

\* C30: what holds: the failure is reported exactly when the writer fails
\* in or before the last typed write or WriteString; a writer that fails
\* only in the WriteBytes after it leaves no error, and WriteDataSet
\* returns nil
C30_ReportedBeforeLastPayload ==
    last.op = "WriteDataSet" =>
        /\ last.returned
        /\ (last.v # Nil) = (last.err # Nil)
        /\ (last.v # Nil) = (last.arg.room < last.arg.full - last.arg.unchecked)

\* C30: the writer took all but the last byte of the name that ends the
\* file, and WriteDataSet returned nil
C30_Witness ==
    /\ writeFailed
    /\ last.arg.body = 2
    /\ last.arg.room = last.arg.full - 1
    /\ last.returned
    /\ last.v = Nil

====
